---- MODULE Spec2Model ----
(***************************************************************************)
(* Interactive session engine of the serial-link updater:                  *)
(*   core/serial_handler.py     SerialHandler.wait_for_output (expect loop)*)
(*   utils/pagination.py        PaginationHandler.check_and_respond        *)
(*   utils/output_processor.py  OutputProcessor.clean_output_for_display   *)
(*   core/conditional_logic.py  ConditionalProcessor (IF/ELIF/ELSE/ENDIF)  *)
(*   core/playbook_executor.py  PlaybookExecutor.execute_playbook          *)
(*                                                                         *)
(* Text is a sequence of one-character strings.  The token "~" stands for  *)
(* a piece of device output that pagination_regex matches ("--More--").    *)
(* Time is counted in poll-sleep ticks since the start of the current wait.*)
(***************************************************************************)
EXTENDS Integers, Sequences, FiniteSets, TLC

VARIABLES
    full_output_buffer,    \* SerialHandler.full_output_buffer
    new_output,            \* local new_output of the wait in progress
    elapsed,               \* time.time() - start_time of the wait in progress (saturates at the timeout)
    w,                     \* arguments of the wait in progress / last wait
    wpc,                   \* position of wait_for_output: "idle", "polling", "returned"
    ret,                   \* what the last wait returned, with copies of its locals
    rx,                    \* history: every character the transport has delivered
    written,               \* history: every write made to the transport
    at_call,               \* history: buffer and rx length when the last wait was called
    prev,                  \* history: summary of the wait before the last one
    ncalls,                \* number of wait_for_output calls made directly on the handler
    pagination_enabled,    \* PaginationHandler.enabled
    commands,              \* the playbook handed to execute_playbook
    pc,                    \* executor state: "Idle", "Running", "Waiting", "Completed", "Aborted"
    command_index,         \* local command_index of execute_playbook
    completed_commands,    \* PlaybookExecutor.completed_commands
    total_commands,        \* PlaybookExecutor.total_commands
    success,               \* local success of execute_playbook
    detected_prompt,       \* PlaybookExecutor.detected_prompt
    prompt_symbol,         \* PlaybookExecutor.prompt_symbol
    condition_stack,       \* ConditionalProcessor.condition_stack
    last_command_output,   \* ConditionalProcessor.last_command_output
    obs,                   \* history: the last operation and the first failed step, for the claims
    playbook,              \* the parsed command list handed to filter_login_steps
    filter_index,          \* how many commands the loop of filter_login_steps has walked
    filtered_commands,     \* local filtered_commands of filter_login_steps
    in_login_sequence,     \* local in_login_sequence of filter_login_steps
    login,                 \* handle_login_sequence: its position, the rounds made, its result
    app,                   \* SerialLinkUpdater.run: its position, the port, what it returned
    legacy                 \* serial_communicator.execute_playbook: its locals and its result

engineVars == <<full_output_buffer, new_output, elapsed, w, wpc, ret, rx, written,
                at_call, prev, ncalls, pagination_enabled>>
condVars == <<condition_stack, last_command_output>>
execVars == <<commands, pc, command_index, completed_commands, total_commands, success,
              detected_prompt, prompt_symbol, obs>>
filterVars == <<playbook, filter_index, filtered_commands, in_login_sequence>>
loginVars == <<login>>
appVars == <<app>>
legacyVars == <<legacy>>
vars == <<engineVars, condVars, execVars, filterVars, loginVars, appVars, legacyVars>>

----------------------------------------------------------------------------
(* Bounds of the model *)

MaxRx == 2          \* characters the transport delivers in one session
MaxExecRx == 2      \* characters the transport delivers during one playbook run
MaxCalls == 2       \* waits called directly on the handler in one session
MaxTimeout == 1     \* largest wait_timeout, in ticks
MaxCmds == 3        \* length of a playbook
MaxDepth == 2       \* nesting depth of IF blocks driven directly on the processor

----------------------------------------------------------------------------
(* Text *)

None == <<"None">>        \* Python None where Optional[str] is expected
PROMPT == <<"P", "R", "O", "M", "P", "T">>

Chars == {"a", "A", ">", "#", "~"}

Min(x, y) == IF x < y THEN x ELSE y
Max(x, y) == IF x > y THEN x ELSE y

\* str.lower() / str.upper(), one character
LowerChar(c) ==
    CASE c = "A" -> "a" [] c = "B" -> "b" [] c = "C" -> "c" [] c = "D" -> "d"
      [] c = "E" -> "e" [] c = "F" -> "f" [] c = "G" -> "g" [] c = "H" -> "h"
      [] c = "I" -> "i" [] c = "J" -> "j" [] c = "K" -> "k" [] c = "L" -> "l"
      [] c = "M" -> "m" [] c = "N" -> "n" [] c = "O" -> "o" [] c = "P" -> "p"
      [] c = "Q" -> "q" [] c = "R" -> "r" [] c = "S" -> "s" [] c = "T" -> "t"
      [] c = "U" -> "u" [] c = "V" -> "v" [] c = "W" -> "w" [] c = "X" -> "x"
      [] c = "Y" -> "y" [] c = "Z" -> "z"
      [] OTHER -> c
UpperChar(c) ==
    CASE c = "a" -> "A" [] c = "b" -> "B" [] c = "c" -> "C" [] c = "d" -> "D"
      [] c = "e" -> "E" [] c = "f" -> "F" [] c = "g" -> "G" [] c = "h" -> "H"
      [] c = "i" -> "I" [] c = "j" -> "J" [] c = "k" -> "K" [] c = "l" -> "L"
      [] c = "m" -> "M" [] c = "n" -> "N" [] c = "o" -> "O" [] c = "p" -> "P"
      [] c = "q" -> "Q" [] c = "r" -> "R" [] c = "s" -> "S" [] c = "t" -> "T"
      [] c = "u" -> "U" [] c = "v" -> "V" [] c = "w" -> "W" [] c = "x" -> "X"
      [] c = "y" -> "Y" [] c = "z" -> "Z"
      [] OTHER -> c
Lower(s) == [i \in 1..Len(s) |-> LowerChar(s[i])]
Upper(s) == [i \in 1..Len(s) |-> UpperChar(s[i])]

\* s[:n] and s[n:] for n >= 0
Take(s, n) == SubSeq(s, 1, Min(n, Len(s)))
Drop(s, n) == SubSeq(s, Min(n, Len(s)) + 1, Len(s))

\* t occurs in s at 0-based index i
OccursAt(s, t, i) == i >= 0 /\ i + Len(t) <= Len(s) /\ SubSeq(s, i + 1, i + Len(t)) = t
Occurrences(s, t) == {i \in 0..Len(s) : OccursAt(s, t, i)}
\* t in s
Contains(s, t) == Occurrences(s, t) # {}
\* s.find(t), s.rfind(t)
Find(s, t) ==
    IF Contains(s, t) THEN CHOOSE i \in Occurrences(s, t) : \A j \in Occurrences(s, t) : i <= j
    ELSE -1
RFind(s, t) ==
    IF Contains(s, t) THEN CHOOSE i \in Occurrences(s, t) : \A j \in Occurrences(s, t) : i >= j
    ELSE -1
EndsWith(s, t) == Len(t) <= Len(s) /\ SubSeq(s, Len(s) - Len(t) + 1, Len(s)) = t

\* all texts over S of length lo..hi
Texts(S, lo, hi) == UNION {[1..n -> S] : n \in lo..hi}

\* bool(x) of an Optional[str]
Truthy(s) == s # None /\ s # <<>>

----------------------------------------------------------------------------
(* utils/pagination.py: PaginationHandler *)

RecentWindow == 200

\* output_buffer[-200:] if len(output_buffer) > 200 else output_buffer
recent_output(output_buffer) ==
    IF Len(output_buffer) > RecentWindow
    THEN SubSeq(output_buffer, Len(output_buffer) - RecentWindow + 1, Len(output_buffer))
    ELSE output_buffer

\* pagination_regex.search(recent_output) finds a pager prompt
pagination_match(output_buffer) ==
    \E i \in 1..Len(recent_output(output_buffer)) : recent_output(output_buffer)[i] = "~"

\* the keystroke check_and_respond writes for the pager prompt "--More--"
pagination_response == <<" ">>

\* check_and_respond(ser, output_buffer): TRUE iff a response was written.
\* write_ok = FALSE: ser.write raised, which check_and_respond swallows.
check_and_respond(enabled, output_buffer, write_ok) ==
    enabled /\ pagination_match(output_buffer) /\ write_ok

\* lines 33-47: default_patterns in source order, lower-cased (the regex is compiled
\* with re.IGNORECASE).  A pattern with \s*, \s+ or .* is written as one instance of
\* it: \s* empty, \s+ and .* one character.
default_patterns ==
    <<<<"-", "-", "m", "o", "r", "e", "-", "-">>,
      <<"-", "-", "-", " ", "m", "o", "r", "e", " ", "-", "-", "-">>,
      <<"p", "r", "e", "s", "s", " ", "a", "n", "y", " ", "k", "e", "y", " ", "t", "o", " ", "c", "o", "n", "t", "i", "n", "u", "e">>,
      <<"(", "q", ")", "u", "i", "t", " ", "m", "o", "r", "e">>,
      <<"c", "o", "n", "t", "i", "n", "u", "e", "?", " ", "[", "y", "/", "n", "]">>,
      <<"n", "e", "x", "t", " ", "p", "a", "g", "e", "?">>,
      <<"-", "-", "p", "r", "e", "s", "s", " ", "s", "p", "a", "c", "e", " ", "t", "o", " ", "c", "o", "n", "t", "i", "n", "u", "e">>,
      <<"(", "p", "r", "e", "s", "s", " ", "q", " ", "t", "o", " ", "q", "u", "i", "t", ")">>,
      <<"t", "y", "p", "e", " ", "<", "s", "p", "a", "c", "e", ">", " ", "f", "o", "r", " ", "m", "o", "r", "e">>,
      <<"m", "o", "r", "e", " ", "(", "1", ")">>,
      <<"-", "-", "m", "o", "r", "e", "-", "-", " ", "(", "1", ")">>,
      <<"[", "p", "r", "e", "s", "s", " ", "s", "p", "a", "c", "e", " ", "t", "o", " ", "c", "o", "n", "t", "i", "n", "u", "e", "]">>,
      <<"p", "r", "e", "s", "s", " ", "s", "p", "a", "c", "e", " ", "t", "o", " ", "c", "o", "n", "t", "i", "n", "u", "e", " ", "o", "r", " ", "q", " ", "t", "o", " ", "q", "u", "i", "t">>>>

\* line 30: patterns the configuration adds (pagination_patterns), here one per
\* keyword rule and two that carry the keywords of two rules
custom_patterns ==
    <<<<"h", "i", "t", " ", "a", "n", "y", " ", "k", "e", "y">>,
      <<"p", "r", "o", "c", "e", "e", "d", " ", "[", "y", "/", "n", "]">>,
      <<"a", "n", "y", " ", "k", "e", "y", " ", "o", "r", " ", "s", "p", "a", "c", "e">>,
      <<"a", "n", "y", " ", "k", "e", "y", " ", "[", "y", "/", "n", "]">>,
      <<"p", "a", "g", "e", " ", "e", "n", "d">>>>

\* line 50
all_patterns == default_patterns \o custom_patterns

\* the alternatives that match a lower-cased text at 0-based index i
alternatives_at(lowered, i) ==
    {k \in 1..Len(all_patterns) :
         /\ i < Len(lowered)
         /\ lowered[i + 1] = all_patterns[k][1]
         /\ OccursAt(lowered, all_patterns[k], i)}

\* lines 77-80, pagination_regex.search(...).group(): at the leftmost index where an
\* alternative matches, the first alternative that matches there, as the text spells
\* it, letter case ignored in the match; None when nothing matches
pagination_prompt(text) ==
    LET lowered == <<>> \o Lower(text)
        starts == {i \in 0..(Len(lowered) - 1) : alternatives_at(lowered, i) # {}}
    IN  IF starts = {} THEN None
        ELSE LET i == CHOOSE a \in starts : \A b \in starts : a <= b
                 k == CHOOSE a \in alternatives_at(lowered, i) :
                          \A b \in alternatives_at(lowered, i) : a <= b
             IN  SubSeq(text, i + 1, i + Len(all_patterns[k]))

\* mutant: the 'any key' rule is tried before the space rule
response_for_any_key_first(prompt) ==
    LET lowered == Lower(prompt)
    IN  IF Contains(lowered, <<"a", "n", "y", " ", "k", "e", "y">>)
        THEN <<"\n">>
        ELSE IF \E keyword \in {<<"s", "p", "a", "c", "e">>, <<"c", "o", "n", "t", "i", "n", "u", "e">>, <<"-", "-", "m", "o", "r", "e", "-", "-">>, <<"-", "-", "-", " ", "m", "o", "r", "e", " ", "-", "-", "-">>} :
               Contains(lowered, keyword)
        THEN <<" ">>
        ELSE IF Contains(lowered, <<"[", "y", "/", "n", "]">>) \/ Contains(lowered, <<"c", "o", "n", "t", "i", "n", "u", "e", "?">>)
        THEN <<"y", "\n">>
        ELSE <<" ">>

\* lines 84-99: the bytes written for a matched pager prompt
response_for(prompt) ==
    LET lowered == Lower(prompt)
    IN  IF \E keyword \in {<<"s", "p", "a", "c", "e">>, <<"c", "o", "n", "t", "i", "n", "u", "e">>, <<"-", "-", "m", "o", "r", "e", "-", "-">>, <<"-", "-", "-", " ", "m", "o", "r", "e", " ", "-", "-", "-">>} :
               Contains(lowered, keyword)
        THEN <<" ">>
        ELSE IF Contains(lowered, <<"a", "n", "y", " ", "k", "e", "y">>)
        THEN <<"\n">>
        ELSE IF Contains(lowered, <<"[", "y", "/", "n", "]">>) \/ Contains(lowered, <<"c", "o", "n", "t", "i", "n", "u", "e", "?">>)
        THEN <<"y", "\n">>
        ELSE <<" ">>

\* lines 71-108 on a buffer of device text: what is written (None: nothing) and the
\* value returned.  write_ok = FALSE: ser.write raised, which line 105 swallows.
respond(enabled, output_buffer, write_ok) ==
    LET prompt == pagination_prompt(recent_output(output_buffer))
    IN  IF enabled /\ prompt # None /\ write_ok
        THEN [handled |-> TRUE, write |-> response_for(prompt)]
        ELSE [handled |-> FALSE, write |-> None]

----------------------------------------------------------------------------
(* core/serial_handler.py: SerialHandler.wait_for_output *)

\* lines 262-268: the sentinel PROMPT is replaced by the detected prompt or the fallback
actual_expected_text(expected_text, detected, symbol) ==
    IF Upper(expected_text) = PROMPT
    THEN (IF Truthy(detected) THEN detected ELSE symbol)
    ELSE expected_text

\* lines 276-279: is the expected text in the buffer that exists at call time
existing_present(buffer, actual) == Contains(Lower(buffer), Lower(actual))

\* lines 283-284: where the match in the existing buffer ends
existing_end_of_match(buffer, actual) == Find(Lower(buffer), Lower(actual)) + Len(actual)

\* lines 326, 341: the texts matched at their last occurrence
is_prompt_text(actual, detected) == actual = <<">">> \/ actual = detected

\* line 320
search_in(check_existing_buffer, newout, buffer) ==
    IF check_existing_buffer THEN buffer ELSE newout

\* lines 326-329
match_index(target, actual, detected) ==
    IF is_prompt_text(actual, detected) THEN RFind(target, actual) ELSE Find(target, actual)

\* lines 341-344
consumed_from_full(buffer, actual, detected) ==
    (IF is_prompt_text(actual, detected) THEN RFind(buffer, actual) ELSE Find(buffer, actual))
        + Len(actual)

\* lines 333-346: the buffer after a match in the poll loop
buffer_after_match(check_existing_buffer, buffer, end_of_match, actual, detected) ==
    IF check_existing_buffer
    THEN Drop(buffer, end_of_match)
    ELSE IF consumed_from_full(buffer, actual, detected) > 0
         THEN Drop(buffer, consumed_from_full(buffer, actual, detected))
         ELSE buffer

\* lines 335, 339: the captured output of a match in the poll loop
captured_after_match(check_existing_buffer, newout, buffer, end_of_match) ==
    IF check_existing_buffer THEN Take(buffer, end_of_match) ELSE Take(newout, end_of_match)

\* mutant: the loop condition never compares the clock with the timeout
loop_guard_without_timeout(t, wait_timeout) == TRUE

\* line 296: the poll loop goes on
loop_guard(t, wait_timeout) == t < wait_timeout

NoRet ==
    [found |-> FALSE, captured_output |-> <<>>, via |-> "none",
     match_index |-> -1, search_in |-> <<>>, cap_start_rx |-> -1, match_end_rx |-> -1]

NoWait ==
    [expected_text |-> <<>>, wait_timeout |-> 0, detected_prompt |-> None,
     prompt_symbol |-> <<">">>, check_existing_buffer |-> FALSE,
     handle_pagination |-> FALSE, actual |-> <<>>]

NoCall == [called |-> FALSE, w |-> NoWait, ret |-> NoRet, rx_at_return |-> 0]

\* lines 260-294: from the call to the first test of the loop condition.
\* Leaves rx and written to the caller.
EnterWait(expected_text, wait_timeout, detected, symbol, check_existing_buffer, handle_pagination) ==
    LET actual == actual_expected_text(expected_text, detected, symbol)
        e == existing_end_of_match(full_output_buffer, actual)
    IN  /\ w' = [expected_text |-> expected_text, wait_timeout |-> wait_timeout,
                 detected_prompt |-> detected, prompt_symbol |-> symbol,
                 check_existing_buffer |-> check_existing_buffer,
                 handle_pagination |-> (handle_pagination /\ pagination_enabled),
                 actual |-> actual]
        /\ at_call' = [buffer |-> full_output_buffer, rx_len |-> Len(rx)]
        /\ new_output' = <<>>
        /\ elapsed' = 0
        /\ IF check_existing_buffer /\ existing_present(full_output_buffer, actual)
           THEN /\ ret' = [NoRet EXCEPT !.found = TRUE,
                                        !.captured_output = Take(full_output_buffer, e),
                                        !.via = "existing",
                                        !.cap_start_rx = Len(rx) - Len(full_output_buffer),
                                        !.match_end_rx = Len(rx) - Len(full_output_buffer) + e]
                /\ full_output_buffer' = Drop(full_output_buffer, e)
                /\ wpc' = "returned"
           ELSE /\ ret' = NoRet
                /\ full_output_buffer' = full_output_buffer
                /\ wpc' = "polling"

\* lines 298-361, self.ser.in_waiting > 0: one iteration that reads chunk
PollData(chunk, write_ok) ==
    LET newout == new_output \o chunk
        buffer == full_output_buffer \o chunk
        target == search_in(w.check_existing_buffer, newout, buffer)
        mi == match_index(target, w.actual, w.detected_prompt)
        e == mi + Len(w.actual)
    IN  /\ wpc = "polling"
        /\ loop_guard(elapsed, w.wait_timeout)
        /\ rx' = rx \o chunk
        /\ new_output' = newout
        /\ IF check_and_respond(w.handle_pagination, buffer, write_ok)
           THEN /\ written' = Append(written, pagination_response)
                /\ full_output_buffer' = buffer
                /\ UNCHANGED <<wpc, ret>>
           ELSE /\ written' = written
                /\ IF Contains(target, w.actual)
                   THEN /\ ret' = [found |-> TRUE,
                                   captured_output |->
                                       captured_after_match(w.check_existing_buffer, newout, buffer, e),
                                   via |-> "poll", match_index |-> mi, search_in |-> target,
                                   cap_start_rx |-> Len(rx') - Len(target),
                                   match_end_rx |-> Len(rx') - Len(target) + e]
                        /\ full_output_buffer' =
                               buffer_after_match(w.check_existing_buffer, buffer, e,
                                                  w.actual, w.detected_prompt)
                        /\ wpc' = "returned"
                   ELSE /\ full_output_buffer' = buffer
                        /\ UNCHANGED <<wpc, ret>>
        /\ UNCHANGED <<elapsed, w, at_call, prev, ncalls, pagination_enabled>>
        /\ UNCHANGED <<condVars, execVars>>
        /\ UNCHANGED <<filterVars, legacyVars, loginVars, appVars>>

\* lines 349-361, nothing to read: one iteration that only sleeps
PollEmpty ==
    /\ wpc = "polling"
    /\ loop_guard(elapsed, w.wait_timeout)
    /\ UNCHANGED vars

\* lines 363-365: the transport raises serial.SerialException in an iteration
PollSerialException ==
    /\ wpc = "polling"
    /\ loop_guard(elapsed, w.wait_timeout)
    /\ ret' = [NoRet EXCEPT !.captured_output = new_output, !.via = "serial_error"]
    /\ wpc' = "returned"
    /\ UNCHANGED <<full_output_buffer, new_output, elapsed, w, rx, written, at_call, prev,
                   ncalls, pagination_enabled>>
    /\ UNCHANGED <<condVars, execVars>>
    /\ UNCHANGED <<filterVars, legacyVars, loginVars, appVars>>

\* lines 366-368: the transport raises another exception in an iteration; the loop goes on
PollOtherException ==
    /\ wpc = "polling"
    /\ loop_guard(elapsed, w.wait_timeout)
    /\ UNCHANGED vars

\* the wall clock advances while the wait polls or sleeps
Tick ==
    /\ wpc = "polling"
    /\ elapsed < w.wait_timeout
    /\ elapsed' = elapsed + 1
    /\ UNCHANGED <<full_output_buffer, new_output, w, wpc, ret, rx, written, at_call, prev,
                   ncalls, pagination_enabled>>
    /\ UNCHANGED <<condVars, execVars>>
    /\ UNCHANGED <<filterVars, legacyVars, loginVars, appVars>>

\* lines 370-374: the loop condition is false
WaitTimeout ==
    /\ wpc = "polling"
    /\ ~loop_guard(elapsed, w.wait_timeout)
    /\ ret' = [NoRet EXCEPT
                 !.captured_output = (IF new_output # <<>> THEN new_output ELSE full_output_buffer),
                 !.via = "timeout"]
    /\ full_output_buffer' = <<>>
    /\ wpc' = "returned"
    /\ UNCHANGED <<new_output, elapsed, w, rx, written, at_call, prev, ncalls, pagination_enabled>>
    /\ UNCHANGED <<condVars, execVars>>
    /\ UNCHANGED <<filterVars, legacyVars, loginVars, appVars>>

----------------------------------------------------------------------------
(* config/config_manager.py: PlaybookCommand, as _parse_playbook_line builds it *)

\* command and expected_text are texts; the lower-cased action word of a conditional
\* step (command of IF/ELIF/ELSE/ENDIF) is a text of one token, e.g. <<"if_contains">>
Command(type, command, expected_text, wait_timeout) ==
    [expected_text |-> expected_text, wait_timeout |-> wait_timeout, command |-> command,
     command_type |-> type, delay |-> 0]

Send(value) == Command("send_only", value, None, MaxTimeout)
Wait(value) == Command("wait_for_output", <<>>, value, MaxTimeout)
If(action, value) == Command("IF", action, value, MaxTimeout)
Elif(action, value) == Command("ELIF", action, value, MaxTimeout)
Else == Command("ELSE", <<"else">>, None, MaxTimeout)
Endif == Command("ENDIF", <<"endif">>, None, MaxTimeout)
Regular(line) == Command("wait_for_output", line, PROMPT, MaxTimeout)
\* a PAUSE step: a send_only command with an empty payload and a delay, in tenths of a second
Pause(delay) == [Command("send_only", <<>>, None, MaxTimeout) EXCEPT !.delay = delay]

ControlTypes == {"IF", "ELIF", "ELSE", "ENDIF"}

----------------------------------------------------------------------------
(* core/conditional_logic.py: ConditionalProcessor *)

\* a pattern re.compile rejects
BadRegex == <<"(">>

\* re.search(pattern, text) for a pattern without metacharacters
regex_search(pattern, text) == Contains(text, pattern)

\* ConditionalState; branches is history: how many branches of the block so far
\* had their steps pass should_execute_command
ConditionalState(type, met, executed, branches) ==
    [condition_type |-> type, condition_met |-> met, executed |-> executed,
     branches |-> branches]

B2N(b) == IF b THEN 1 ELSE 0

\* lines 81-140
evaluate_condition(condition_cmd, search_text, output) ==
    IF output = <<>> THEN FALSE
    ELSE CASE condition_cmd \in {<<"if_contains">>, <<"elif_contains">>} ->
                Contains(output, search_text)
           [] condition_cmd \in {<<"if_not_contains">>, <<"elif_not_contains">>} ->
                ~Contains(output, search_text)
           [] condition_cmd \in {<<"if_contains_i">>, <<"elif_contains_i">>} ->
                Contains(Lower(output), Lower(search_text))
           [] condition_cmd \in {<<"if_not_contains_i">>, <<"elif_not_contains_i">>} ->
                ~Contains(Lower(output), Lower(search_text))
           [] condition_cmd \in {<<"if_regex">>, <<"elif_regex">>} ->
                IF search_text = BadRegex THEN FALSE ELSE regex_search(search_text, output)
           [] condition_cmd \in {<<"if_not_regex">>, <<"elif_not_regex">>} ->
                IF search_text = BadRegex THEN FALSE ELSE ~regex_search(search_text, output)
           [] OTHER -> FALSE

\* mutant: the decision is taken from the bottom frame
should_execute_bottom_frame(stack) ==
    IF stack = <<>> THEN TRUE
    ELSE LET current_state == stack[1]
         IN  \/ (current_state.condition_type \in {"if", "elif"} /\ current_state.condition_met)
             \/ (current_state.condition_type = "else" /\ ~current_state.executed)

\* mutant: the steps after an ELSE always execute
should_execute_else_always(stack) ==
    IF stack = <<>> THEN TRUE
    ELSE LET current_state == stack[Len(stack)]
         IN  \/ (current_state.condition_type \in {"if", "elif"} /\ current_state.condition_met)
             \/ current_state.condition_type = "else"

\* lines 53-79
should_execute_command(stack) ==
    IF stack = <<>> THEN TRUE
    ELSE LET current_state == stack[Len(stack)]
         IN  \/ (current_state.condition_type \in {"if", "elif"} /\ current_state.condition_met)
             \/ (current_state.condition_type = "else" /\ ~current_state.executed)

\* lines 142-151
process_if_command(stack, command, output) ==
    LET condition_met == evaluate_condition(command.command, command.expected_text, output)
    IN  Append(stack, ConditionalState("if", condition_met, condition_met, B2N(condition_met)))

\* mutant: an ELIF is evaluated although a branch was already taken
elif_state_always_evaluated(current_state, command, output) ==
    LET condition_met == evaluate_condition(command.command, command.expected_text, output)
    IN  ConditionalState("elif", condition_met, current_state.executed \/ condition_met,
                         current_state.branches + B2N(condition_met))

\* lines 165-179: the top frame after an ELIF
elif_state(current_state, command, output) ==
    IF ~current_state.executed
    THEN LET condition_met ==
                 evaluate_condition(command.command, command.expected_text, output)
         IN  ConditionalState("elif", condition_met, condition_met,
                              current_state.branches + B2N(condition_met))
    ELSE ConditionalState("elif", FALSE, current_state.executed, current_state.branches)

\* lines 156-179
process_elif_command(stack, command, output) ==
    IF stack = <<>> \/ stack[Len(stack)].condition_type \notin {"if", "elif"}
    THEN stack
    ELSE [stack EXCEPT ![Len(stack)] = elif_state(stack[Len(stack)], command, output)]

\* lines 190-194: the top frame after an ELSE
else_state(current_state) ==
    ConditionalState("else", ~current_state.executed, current_state.executed,
                     current_state.branches + B2N(~current_state.executed))

\* mutant: an ELSE with no open IF or ELIF opens a block of its own
process_else_command_opens_frame(stack, command) ==
    IF stack = <<>> \/ stack[Len(stack)].condition_type \notin {"if", "elif"}
    THEN Append(stack, ConditionalState("else", TRUE, FALSE, 1))
    ELSE [stack EXCEPT ![Len(stack)] = else_state(stack[Len(stack)])]

\* lines 184-194
process_else_command(stack, command) ==
    IF stack = <<>> \/ stack[Len(stack)].condition_type \notin {"if", "elif"}
    THEN stack
    ELSE [stack EXCEPT ![Len(stack)] = else_state(stack[Len(stack)])]

\* lines 199-206
process_endif_command(stack, command) ==
    IF stack = <<>> THEN stack ELSE SubSeq(stack, 1, Len(stack) - 1)

\* playbook_executor.py lines 245-268: _handle_conditional_command, the stack it leaves
handle_conditional_command(stack, command, output) ==
    CASE command.command_type = "IF" -> process_if_command(stack, command, output)
      [] command.command_type = "ELIF" -> process_elif_command(stack, command, output)
      [] command.command_type = "ELSE" -> process_else_command(stack, command)
      [] command.command_type = "ENDIF" -> process_endif_command(stack, command)
      [] OTHER -> stack

----------------------------------------------------------------------------
(* utils/output_processor.py: OutputProcessor.process_output *)

Whitespace == {" ", "\n", "\t", "\r"}

RECURSIVE lstrip(_)
lstrip(s) == IF s # <<>> /\ Head(s) \in Whitespace THEN lstrip(Tail(s)) ELSE s
RECURSIVE rstrip(_)
rstrip(s) ==
    IF s # <<>> /\ s[Len(s)] \in Whitespace THEN rstrip(SubSeq(s, 1, Len(s) - 1)) ELSE s
\* str.strip()
strip(s) == rstrip(lstrip(s))

\* str.split('\n')
RECURSIVE split_lines(_)
split_lines(s) ==
    IF \E i \in 1..Len(s) : s[i] = "\n"
    THEN LET i == CHOOSE k \in 1..Len(s) : s[k] = "\n" /\ \A j \in 1..(k - 1) : s[j] # "\n"
         IN  <<SubSeq(s, 1, i - 1)>> \o split_lines(SubSeq(s, i + 1, Len(s)))
    ELSE <<s>>

\* '\n'.join(lines)
RECURSIVE join_lines(_)
join_lines(lines) ==
    IF lines = <<>> THEN <<>>
    ELSE IF Len(lines) = 1 THEN lines[1]
    ELSE lines[1] \o <<"\n">> \o join_lines(Tail(lines))

\* cleanup_regex.search(line): the line holds a pager prompt
cleanup_match(line) == \E i \in 1..Len(line) : line[i] = "~"

\* lines 66-96: is line i (0-based) of lines kept
line_kept(lines, i, last_command_sent, wait_value, detected) ==
    LET line == strip(lines[i + 1])
        echo == last_command_sent # <<>> /\ Contains(line, last_command_sent) /\ i = 0
        final1 == EndsWith(line, wait_value) /\ i = Len(lines) - 1
        final2 == IF ~final1 /\ Truthy(detected)
                  THEN Contains(line, detected) /\ i = Len(lines) - 1
                  ELSE final1
    IN  line # <<>> /\ ~echo /\ ~final2 /\ ~cleanup_match(line)

RECURSIVE kept_lines(_, _, _, _, _)
kept_lines(lines, i, last_command_sent, wait_value, detected) ==
    IF i >= Len(lines) THEN <<>>
    ELSE (IF line_kept(lines, i, last_command_sent, wait_value, detected)
          THEN <<strip(lines[i + 1])>> ELSE <<>>)
         \o kept_lines(lines, i + 1, last_command_sent, wait_value, detected)

\* lines 47-98 and 128-141: the list of cleaned lines
process_output(captured_output, last_command_sent, wait_value, detected) ==
    IF strip(captured_output) = <<>> THEN <<>>
    ELSE kept_lines(split_lines(strip(captured_output)), 0, last_command_sent, wait_value,
                    detected)

----------------------------------------------------------------------------
(* core/playbook_executor.py: PlaybookExecutor *)

\* lines 327-334, 357-364: the text handed to update_last_output
output_text(raw_output, command, detected) ==
    LET cleaned_output ==
            process_output(raw_output, command.command, command.expected_text, detected)
    IN  IF cleaned_output # <<>> THEN join_lines(cleaned_output) ELSE raw_output

\* lines 325-372: last_command_output after a wait step that returned (found, raw_output)
output_after_wait(found, raw_output, command, detected, output) ==
    IF found \/ strip(raw_output) # <<>>
    THEN output_text(raw_output, command, detected)
    ELSE output

\* line 312
is_login_prompt(expected_text) ==
    Lower(expected_text) \in {<<"l", "o", "g", "i", "n", ":">>,
                              <<"u", "s", "e", "r", "n", "a", "m", "e", ":">>}

\* mutant: only the first step of the run looks at the buffer it finds
check_buffer_first_step_only(completed, expected_text) == completed = 0

\* lines 311-314
check_buffer(completed, expected_text) == completed = 0 \/ is_login_prompt(expected_text)

\* mutant: the run goes on after a failed step
handle_command_failure_continues == TRUE

\* lines 374-389: _handle_command_failure, TRUE to continue and FALSE to stop
handle_command_failure == FALSE

\* serial_handler.py lines 233-234: what send_command writes
sent_bytes(command) == command \o <<"\n">>

\* mutant: a failed step is counted as completed before the run stops
EndOfStep_counts_failed_step(kind, command_success) ==
    /\ obs' = [kind |-> kind, command |-> commands[command_index + 1],
               stack_before |-> condition_stack, output_before |-> last_command_output,
               failed_at |-> IF ~command_success /\ obs.failed_at = -1
                             THEN command_index ELSE obs.failed_at,
               steps |-> obs.steps + 1]
    /\ success' = (success /\ command_success)
    /\ completed_commands' = completed_commands + 1
    /\ IF command_success \/ handle_command_failure
       THEN /\ command_index' = command_index + 1
            /\ pc' = "Running"
       ELSE /\ UNCHANGED command_index
            /\ pc' = "Aborted"

\* lines 152-162: the end of an iteration whose step returned command_success
EndOfStep(kind, command_success) ==
    /\ obs' = [kind |-> kind, command |-> commands[command_index + 1],
               stack_before |-> condition_stack, output_before |-> last_command_output,
               failed_at |-> IF ~command_success /\ obs.failed_at = -1
                             THEN command_index ELSE obs.failed_at,
               steps |-> obs.steps + 1]
    /\ success' = (success /\ command_success)
    /\ IF command_success \/ handle_command_failure
       THEN /\ completed_commands' = completed_commands + 1
            /\ command_index' = command_index + 1
            /\ pc' = "Running"
       ELSE /\ UNCHANGED <<completed_commands, command_index>>
            /\ pc' = "Aborted"

AtCommand ==
    /\ pc = "Running"
    /\ command_index < Len(commands)

\* lines 92-112: execute_playbook up to the loop
StartPlaybook(cmds, detected, symbol) ==
    /\ pc = "Idle"
    /\ wpc = "idle"
    /\ commands' = cmds
    /\ detected_prompt' = detected
    /\ prompt_symbol' = symbol
    /\ total_commands' = Len(cmds)
    /\ completed_commands' = 0
    /\ condition_stack' = <<>>
    /\ last_command_output' = <<>>
    /\ success' = TRUE
    /\ command_index' = 0
    /\ pc' = "Running"
    /\ UNCHANGED <<obs, engineVars>>
    /\ UNCHANGED <<filterVars, legacyVars, loginVars, appVars>>

\* mutant: a skipped step is not counted toward progress
SkipStep_uncounted ==
    /\ AtCommand
    /\ commands[command_index + 1].command_type \notin ControlTypes
    /\ ~should_execute_command(condition_stack)
    /\ completed_commands' = completed_commands
    /\ command_index' = command_index + 1
    /\ obs' = [obs EXCEPT !.kind = "skip", !.command = commands[command_index + 1],
                          !.stack_before = condition_stack,
                          !.output_before = last_command_output,
                          !.steps = obs.steps + 1]
    /\ UNCHANGED <<commands, pc, total_commands, success, detected_prompt, prompt_symbol>>
    /\ UNCHANGED <<condVars, engineVars>>
    /\ UNCHANGED <<filterVars, legacyVars, loginVars, appVars>>

\* lines 123-137: a step that conditional logic skips
SkipStep ==
    /\ AtCommand
    /\ commands[command_index + 1].command_type \notin ControlTypes
    /\ ~should_execute_command(condition_stack)
    /\ completed_commands' = completed_commands + 1
    /\ command_index' = command_index + 1
    /\ obs' = [obs EXCEPT !.kind = "skip", !.command = commands[command_index + 1],
                          !.stack_before = condition_stack,
                          !.output_before = last_command_output,
                          !.steps = obs.steps + 1]
    /\ UNCHANGED <<commands, pc, total_commands, success, detected_prompt, prompt_symbol>>
    /\ UNCHANGED <<condVars, engineVars>>
    /\ UNCHANGED <<filterVars, legacyVars, loginVars, appVars>>

\* lines 226-229, 245-268: IF, ELIF, ELSE and ENDIF are always processed
ExecConditional ==
    /\ AtCommand
    /\ commands[command_index + 1].command_type \in ControlTypes
    /\ condition_stack' = handle_conditional_command(condition_stack,
                              commands[command_index + 1], last_command_output)
    /\ EndOfStep(commands[command_index + 1].command_type, TRUE)
    /\ UNCHANGED <<commands, total_commands, detected_prompt, prompt_symbol>>
    /\ UNCHANGED <<last_command_output, engineVars>>
    /\ UNCHANGED <<filterVars, legacyVars, loginVars, appVars>>

\* lines 270-291: a send_only step; write_ok = FALSE: ser.write raised
ExecSend(write_ok) ==
    /\ AtCommand
    /\ commands[command_index + 1].command_type = "send_only"
    /\ should_execute_command(condition_stack)
    /\ written' = IF write_ok THEN Append(written, sent_bytes(commands[command_index + 1].command))
                  ELSE written
    /\ EndOfStep("send", write_ok)
    /\ UNCHANGED <<commands, total_commands, detected_prompt, prompt_symbol>>
    /\ UNCHANGED <<full_output_buffer, new_output, elapsed, w, wpc, ret, rx, at_call, prev,
                   ncalls, pagination_enabled>>
    /\ UNCHANGED condVars
    /\ UNCHANGED <<filterVars, legacyVars, loginVars, appVars>>

\* lines 304-306: a wait_for_output step whose command cannot be written
ExecWaitSendFails ==
    /\ AtCommand
    /\ commands[command_index + 1].command_type = "wait_for_output"
    /\ should_execute_command(condition_stack)
    /\ commands[command_index + 1].command # <<>>
    /\ EndOfStep("wait", FALSE)
    /\ UNCHANGED <<commands, total_commands, detected_prompt, prompt_symbol>>
    /\ UNCHANGED <<condVars, engineVars>>
    /\ UNCHANGED <<filterVars, legacyVars, loginVars, appVars>>

\* lines 304-323: a wait_for_output step sends its command and calls wait_for_output
ExecWait ==
    LET command == commands[command_index + 1]
    IN  /\ AtCommand
        /\ command.command_type = "wait_for_output"
        /\ should_execute_command(condition_stack)
        /\ written' = IF command.command # <<>>
                      THEN Append(written, sent_bytes(command.command)) ELSE written
        /\ EnterWait(command.expected_text, command.wait_timeout, detected_prompt,
                     prompt_symbol, check_buffer(completed_commands, command.expected_text),
                     TRUE)
        /\ pc' = "Waiting"
        \* history: what the wait step before this one was called with and returned
        /\ prev' = IF ret.via # "none"
                   THEN [called |-> TRUE, w |-> w, ret |-> ret, rx_at_return |-> Len(rx)]
                   ELSE prev
        /\ UNCHANGED <<rx, ncalls, pagination_enabled>>
        /\ UNCHANGED <<commands, command_index, completed_commands, total_commands, success,
                       detected_prompt, prompt_symbol, obs>>
        /\ UNCHANGED condVars
        /\ UNCHANGED <<filterVars, legacyVars, loginVars, appVars>>

\* lines 325-372: wait_for_output has returned to the wait step
FinishWaitStep ==
    /\ pc = "Waiting"
    /\ wpc = "returned"
    /\ last_command_output' =
           output_after_wait(ret.found, ret.captured_output, commands[command_index + 1],
                             detected_prompt, last_command_output)
    /\ wpc' = "idle"
    /\ EndOfStep("wait", ret.found)
    /\ UNCHANGED <<commands, total_commands, detected_prompt, prompt_symbol>>
    /\ UNCHANGED <<full_output_buffer, new_output, elapsed, w, ret, rx, written, at_call, prev,
                   ncalls, pagination_enabled>>
    /\ UNCHANGED condition_stack
    /\ UNCHANGED <<filterVars, legacyVars, loginVars, appVars>>

\* lines 114, 164-166: the loop is over; execute_playbook returns success
ReturnFromLoop ==
    /\ pc = "Running"
    /\ command_index >= Len(commands)
    /\ pc' = IF success THEN "Completed" ELSE "Aborted"
    /\ UNCHANGED <<commands, command_index, completed_commands, total_commands, success,
                   detected_prompt, prompt_symbol, obs>>
    /\ UNCHANGED <<condVars, engineVars>>
    /\ UNCHANGED <<filterVars, legacyVars, loginVars, appVars>>

----------------------------------------------------------------------------
(* A session driven directly on the SerialHandler: read_initial_output once, *)
(* then up to MaxCalls calls of wait_for_output.                             *)

ExpectedTexts == {<<"a">>, <<"#">>, PROMPT, <<"p", "r", "o", "m", "p", "t">>}
DetectedPrompts == {None, <<"a", ">">>}
PromptSymbols == {<<">">>, <<"#">>}

NoCommand == Command("none", <<>>, None, 0)
NoObs == [kind |-> "none", command |-> NoCommand, stack_before |-> <<>>, output_before |-> <<>>,
          failed_at |-> -1, steps |-> 0]

\* filter_login_steps has not been called
FilterIdle ==
    /\ playbook = <<>>
    /\ filter_index = 0
    /\ filtered_commands = <<>>
    /\ in_login_sequence = TRUE

\* handle_login_sequence has not been called
NoLogin == [pc |-> "idle", username |-> None, password |-> None, rounds |-> <<>>,
            result |-> "none"]
LoginIdle == login = NoLogin

\* SerialLinkUpdater.run has not been called
NoApp == [stage |-> "idle", device |-> "none", port |-> "none", exit_code |-> -1,
          cause |-> "none", during |-> "none", detected |-> None, skip_login |-> FALSE,
          commands |-> <<>>, success_message |-> None, close_raised |-> FALSE]
AppIdle == app = NoApp

\* the legacy execute_playbook of serial_communicator.py has not been called
NoLegacy == [pc |-> "idle", result |-> "none", sent |-> <<>>, last_command_sent |-> None,
             playbook_steps |-> <<>>, step_idx |-> 0, login_phase |-> TRUE,
             prompt_at_start |-> None]
LegacyIdle == legacy = NoLegacy

ExecIdle ==
    /\ commands = <<>>
    /\ pc = "Idle"
    /\ command_index = 0
    /\ completed_commands = 0
    /\ total_commands = 0
    /\ success = TRUE
    /\ obs = NoObs
    /\ FilterIdle
    /\ LoginIdle
    /\ AppIdle
    /\ LegacyIdle

CondIdle ==
    /\ condition_stack = <<>>
    /\ last_command_output = <<>>

EngineIdle ==
    /\ full_output_buffer = <<>>
    /\ new_output = <<>>
    /\ elapsed = 0
    /\ w = NoWait
    /\ wpc = "idle"
    /\ ret = NoRet
    /\ rx = <<>>
    /\ written = <<>>
    /\ at_call = [buffer |-> <<>>, rx_len |-> 0]
    /\ prev = NoCall
    /\ ncalls = 0

InitWait ==
    /\ EngineIdle
    /\ pagination_enabled \in BOOLEAN
    /\ CondIdle
    /\ ExecIdle
    /\ detected_prompt \in DetectedPrompts
    /\ prompt_symbol \in PromptSymbols

\* lines 152-175: read_initial_output appends what the device sent to the buffer
ReadInitialOutput(data) ==
    /\ wpc = "idle"
    /\ rx = <<>>
    /\ full_output_buffer' = full_output_buffer \o data
    /\ rx' = rx \o data
    /\ UNCHANGED <<new_output, elapsed, w, wpc, ret, written, at_call, prev, ncalls,
                   pagination_enabled>>
    /\ UNCHANGED <<condVars, execVars>>
    /\ UNCHANGED <<filterVars, legacyVars, loginVars, appVars>>

\* a caller invokes wait_for_output (handle_pagination left at its default)
CallWait(expected_text, wait_timeout, check_existing_buffer) ==
    /\ wpc \in {"idle", "returned"}
    /\ ncalls < MaxCalls
    /\ ncalls' = ncalls + 1
    /\ prev' = IF wpc = "returned"
               THEN [called |-> TRUE, w |-> w, ret |-> ret, rx_at_return |-> Len(rx)]
               ELSE prev
    /\ EnterWait(expected_text, wait_timeout, detected_prompt, prompt_symbol,
                 check_existing_buffer, TRUE)
    /\ UNCHANGED <<rx, written, pagination_enabled>>
    /\ UNCHANGED <<condVars, execVars>>
    /\ UNCHANGED <<filterVars, legacyVars, loginVars, appVars>>

Chunks(S, room) == Texts(S, 1, room)

NextWait ==
    \/ rx = <<>> /\ wpc = "idle" /\ \E data \in Chunks(Chars, MaxRx) : ReadInitialOutput(data)
    \/ \E e \in ExpectedTexts, t \in 1..MaxTimeout, c \in BOOLEAN : CallWait(e, t, c)
    \/ wpc = "polling" /\ \E chunk \in Chunks(Chars, MaxRx - Len(rx)), ok \in BOOLEAN :
                               PollData(chunk, ok)
    \/ PollEmpty
    \/ PollSerialException
    \/ PollOtherException
    \/ Tick
    \/ WaitTimeout

SpecWait == InitWait /\ [][NextWait]_vars

----------------------------------------------------------------------------
(* Claims about wait_for_output, checked under SpecWait *)

Returned == wpc = "returned"

\* the expected text is the prompt itself: the detected prompt, or the fallback
\* symbol that the sentinel resolved to because no prompt was detected
ResolvedPrompt(x) ==
    \/ (Truthy(x.detected_prompt) /\ x.actual = x.detected_prompt)
    \/ (Upper(x.expected_text) = PROMPT /\ ~Truthy(x.detected_prompt) /\ x.actual = x.prompt_symbol)

\* C1: a wait for a text that never becomes a substring of the data the transport
\* delivered, with no I/O error, returns found = false, not before wait_timeout has
\* elapsed, and leaves full_output_buffer empty.
C1_AbsentTextTimesOut ==
    (Returned /\ ret.via # "serial_error" /\ ~Contains(rx, w.actual))
        => (~ret.found /\ elapsed >= w.wait_timeout /\ full_output_buffer = <<>>)

\* C2: with check_existing_buffer and the expected text already in the buffer at call
\* time, the wait returns found = true without reading, the captured prefix ends at
\* the last occurrence for the resolved prompt and at the first occurrence otherwise,
\* and the rest of the buffer is kept.
C2_ExistingBufferMatch ==
    (Returned /\ w.check_existing_buffer /\ Contains(at_call.buffer, w.actual))
        => LET i == IF ResolvedPrompt(w) THEN RFind(at_call.buffer, w.actual)
                    ELSE Find(at_call.buffer, w.actual)
               e == i + Len(w.actual)
           IN  /\ ret.found
               /\ Len(rx) = at_call.rx_len
               /\ ret.captured_output = Take(at_call.buffer, e)
               /\ full_output_buffer = Drop(at_call.buffer, e)

\* C3: when the poll loop returns found = true, the captured output ends with the
\* matched text and full_output_buffer is exactly what was received after the end of
\* that match.
C3_BufferAdvancedPastMatch ==
    (Returned /\ ret.via = "poll")
        => /\ EndsWith(ret.captured_output, w.actual)
           /\ full_output_buffer = Drop(rx, ret.match_end_rx)

\* C4: the poll loop matches the resolved prompt at its last occurrence in the search
\* target and any other literal text at its first occurrence.
C4_MatchOccurrence ==
    (Returned /\ ret.via = "poll")
        => ret.match_index = (IF ResolvedPrompt(w) THEN RFind(ret.search_in, w.actual)
                              ELSE Find(ret.search_in, w.actual))

Literal(x) == Upper(x.expected_text) # PROMPT
OccursOnce(s, t) == Cardinality(Occurrences(s, t)) = 1

\* C5: two distinct literal texts A, B that each occur once in the stream, A wholly
\* before B: wait(A) then wait(B) both return found = true, the second capture starts
\* after what the first consumed, and nothing up to the end of B stays in the buffer.
C5_TwoWaitsInStreamOrder ==
    (/\ Returned /\ prev.called
     /\ Literal(prev.w) /\ Literal(w) /\ prev.w.actual # w.actual
     /\ prev.ret.via # "serial_error" /\ ret.via # "serial_error"
     /\ OccursOnce(rx, prev.w.actual) /\ OccursOnce(rx, w.actual)
     /\ Find(rx, prev.w.actual) + Len(prev.w.actual) <= Find(rx, w.actual))
        => /\ prev.ret.found
           /\ ret.found
           /\ ret.cap_start_rx >= prev.ret.match_end_rx
           /\ Len(full_output_buffer) <= Len(rx) - (Find(rx, w.actual) + Len(w.actual))

\* full_output_buffer is always the tail of what the transport delivered
BufferIsTailOfRx == EndsWith(rx, full_output_buffer)

\* what wait_for_output hands to its caller: (success, captured_output)
ReturnedPair == <<ret.found, ret.captured_output>>

\* what the same wait would hand to its caller if it timed out now (lines 370-374)
TimeoutPair == <<FALSE, IF new_output # <<>> THEN new_output ELSE full_output_buffer>>

\* C23: a wait that the transport's serial exception ended has returned before the
\* timeout with found = false, and what it returned differs from what a timeout
\* returns, so that the caller can tell the two apart.
C23_IoErrorIsNotATimeout ==
    (wpc = "returned" /\ ret.via = "serial_error")
        => /\ ~ret.found
           /\ elapsed < w.wait_timeout
           /\ ReturnedPair # TimeoutPair

\* C24: a wait for a text that is not a login-style prompt is satisfied by the
\* pre-existing buffer only if the buffer holds the text in the same letter case;
\* an occurrence that differs in case does not end the wait and consumes nothing.
C24_PreCheckCaseSensitive ==
    (wpc = "returned" /\ ret.via = "existing" /\ ~is_login_prompt(w.expected_text))
        => Contains(at_call.buffer, w.actual)

----------------------------------------------------------------------------
(* The ConditionalProcessor driven directly: update_last_output and the four *)
(* process_* methods in any order, at most MaxDepth blocks open.              *)

CondChars == {"a", "A"}
CondNeedles == {<<"a">>, <<"A">>, BadRegex}
IfActions == {<<"if_contains">>, <<"if_not_contains">>, <<"if_contains_i">>,
              <<"if_not_contains_i">>, <<"if_regex">>, <<"if_not_regex">>, <<"if_exists">>}
ElifActions == {<<"elif_contains">>, <<"elif_not_contains">>, <<"elif_contains_i">>,
                <<"elif_not_contains_i">>, <<"elif_regex">>, <<"elif_not_regex">>}

InitCond ==
    /\ EngineIdle
    /\ pagination_enabled = TRUE
    /\ CondIdle
    /\ ExecIdle
    /\ detected_prompt = None
    /\ prompt_symbol = <<">">>

Observe(kind, command) ==
    obs' = [obs EXCEPT !.kind = kind, !.command = command,
                       !.stack_before = condition_stack,
                       !.output_before = last_command_output]

\* lines 42-49
UpdateLastOutput(output) ==
    /\ pc = "Idle"
    /\ last_command_output' = output
    /\ Observe("update", NoCommand)
    /\ UNCHANGED <<condition_stack, engineVars>>
    /\ UNCHANGED <<commands, pc, command_index, completed_commands, total_commands, success,
                   detected_prompt, prompt_symbol>>
    /\ UNCHANGED <<filterVars, legacyVars, loginVars, appVars>>

\* one process_* call made directly on the processor
ProcessCommand(command) ==
    /\ pc = "Idle"
    /\ command.command_type = "IF" => Len(condition_stack) < MaxDepth
    /\ condition_stack' = handle_conditional_command(condition_stack, command, last_command_output)
    /\ Observe(command.command_type, command)
    /\ UNCHANGED <<last_command_output, engineVars>>
    /\ UNCHANGED <<commands, pc, command_index, completed_commands, total_commands, success,
                   detected_prompt, prompt_symbol>>
    /\ UNCHANGED <<filterVars, legacyVars, loginVars, appVars>>

\* playbook_executor.py lines 123-137: the executor's decision for a non-control step,
\* executed or skipped
NonControlStep ==
    /\ pc = "Idle"
    /\ Observe(IF should_execute_command(condition_stack) THEN "executed" ELSE "skipped",
               NoCommand)
    /\ UNCHANGED <<condition_stack, last_command_output, engineVars>>
    /\ UNCHANGED <<commands, pc, command_index, completed_commands, total_commands, success,
                   detected_prompt, prompt_symbol>>
    /\ UNCHANGED <<filterVars, legacyVars, loginVars, appVars>>

NextCond ==
    \/ \E output \in Texts(CondChars, 0, MaxRx) : UpdateLastOutput(output)
    \/ NonControlStep
    \/ \E a \in IfActions, n \in CondNeedles : ProcessCommand(If(a, n))
    \/ \E a \in ElifActions, n \in CondNeedles : ProcessCommand(Elif(a, n))
    \/ ProcessCommand(Else)
    \/ ProcessCommand(Endif)

SpecCond == InitCond /\ [][NextCond]_vars

Top(stack) == stack[Len(stack)]

\* C9: right after process_if_command with non-empty last output,
\* should_execute_command is the value of the condition just evaluated (for
\* IF_CONTAINS: whether the needle is a case-sensitive substring of the last output),
\* whatever the frames below the top say; with an empty stack it is true.
C9_ShouldExecuteAfterIf ==
    /\ (obs.kind = "IF" /\ last_command_output # <<>>)
          => /\ should_execute_command(condition_stack) = Top(condition_stack).condition_met
             /\ obs.command.command = <<"if_contains">>
                    => (should_execute_command(condition_stack)
                            = Contains(last_command_output, obs.command.expected_text))
             /\ obs.command.command = <<"if_not_contains">>
                    => (should_execute_command(condition_stack)
                            = ~Contains(last_command_output, obs.command.expected_text))
    /\ condition_stack = <<>> => should_execute_command(condition_stack)

\* C9 witness: an inner IF_CONTAINS that holds, inside an outer branch that is skipped
C9_Witness ==
    /\ obs.kind = "IF" /\ obs.command.command = <<"if_contains">>
    /\ last_command_output # <<>>
    /\ Contains(last_command_output, obs.command.expected_text)
    /\ Len(condition_stack) = 2
    /\ ~condition_stack[1].condition_met
    /\ should_execute_command(condition_stack)

\* C10: once a branch of a block is taken (executed), each later ELIF of the block gets
\* condition_met = false whatever its condition, the ELSE does not execute, at most
\* one branch of a block has passed should_execute_command, and executed stays true
\* while the frame is on the stack.
C10_FirstTrueWins ==
    [][/\ \A i \in 1..Min(Len(condition_stack), Len(condition_stack')) :
              condition_stack[i].executed => condition_stack'[i].executed
       /\ (obs'.kind \in {"ELIF", "ELSE"} /\ condition_stack # <<>>
                /\ Top(condition_stack).executed)
              => /\ Len(condition_stack') = Len(condition_stack)
                 /\ ~Top(condition_stack').condition_met
                 /\ ~should_execute_command(condition_stack')
       /\ \A i \in 1..Len(condition_stack') : condition_stack'[i].branches <= 1]_vars

\* C10 witness: an ELIF whose condition holds was processed after a taken branch
C10_Witness ==
    /\ obs.kind = "ELIF"
    /\ obs.stack_before # <<>> /\ Top(obs.stack_before).executed
    /\ Top(obs.stack_before).condition_type = "if"
    /\ evaluate_condition(obs.command.command, obs.command.expected_text, last_command_output)
    /\ ~should_execute_command(condition_stack)

WellFormedElse == condition_stack # <<>> /\ Top(condition_stack).condition_type \in {"if", "elif"}

\* C11: in a well-formed IF / ELIF* / ELSE / ENDIF block the steps after the ELSE
\* execute iff the IF condition and every ELIF condition evaluated false (no branch
\* was taken before the ELSE), so exactly one branch of the block executes.
C11_ElseIffNoBranchTaken ==
    [][/\ (obs'.kind = "ELSE" /\ WellFormedElse)
            => /\ Len(condition_stack') = Len(condition_stack)
               /\ Top(condition_stack').condition_type = "else"
               /\ should_execute_command(condition_stack')
                      = (Top(condition_stack).branches = 0)
               /\ Top(condition_stack).executed = (Top(condition_stack).branches = 1)
               /\ Top(condition_stack').branches = 1
       /\ (obs'.kind \in {"executed", "skipped"} /\ condition_stack # <<>>
                /\ Top(condition_stack).condition_type = "else")
            => /\ Top(condition_stack).branches = 1
               /\ (obs'.kind = "executed") = ~Top(condition_stack).executed
       /\ \A i \in 1..Len(condition_stack') :
              condition_stack'[i].condition_type = "else"
                  => condition_stack'[i].branches = 1]_vars

\* C11 witness: a step of the ELSE branch executed, no condition of the block having
\* evaluated true, on non-empty output
C11_Witness ==
    /\ obs.kind = "executed"
    /\ last_command_output # <<>>
    /\ Len(condition_stack) = 1
    /\ Top(condition_stack).condition_type = "else"
    /\ ~Top(condition_stack).executed
    /\ Top(condition_stack).branches = 1

\* C12: with empty last output, IF_CONTAINS / IF_CONTAINS_I evaluate to false and
\* IF_NOT_CONTAINS / IF_NOT_CONTAINS_I with a non-empty needle evaluate to true, the
\* needle not being contained.
C12_EmptyOutputConditions ==
    (obs.kind = "IF" /\ last_command_output = <<>> /\ obs.command.expected_text # <<>>)
        => /\ obs.command.command \in {<<"if_contains">>, <<"if_contains_i">>}
                => ~Top(condition_stack).condition_met
           /\ obs.command.command \in {<<"if_not_contains">>, <<"if_not_contains_i">>}
                => Top(condition_stack).condition_met

\* an ELIF or ELSE that was processed with no open IF, or after the ELSE of its block
StructuralError ==
    /\ obs.kind \in {"ELIF", "ELSE"}
    /\ \/ obs.stack_before = <<>>
       \/ Top(obs.stack_before).condition_type = "else"

\* C13: after an ELIF or ELSE with no open IF, or one that follows an ELSE in the same
\* block, the run goes on with the stack as it was and the steps of the malformed
\* branch are inert: should_execute_command is false for them.
C13_MalformedBranchInert ==
    StructuralError
        => /\ condition_stack = obs.stack_before
           /\ ~should_execute_command(condition_stack)

----------------------------------------------------------------------------
(* PaginationHandler.check_and_respond called on buffers of device text, as *)
(* line 313 of wait_for_output calls it on full_output_buffer after a read.  *)

MorePrompt == <<"-", "-", "M", "o", "r", "e", "-", "-">>
AnyKeyPrompt == <<"P", "r", "e", "s", "s", " ", "a", "n", "y", " ", "k", "e", "y", " ", "t", "o", " ", "c", "o", "n", "t", "i", "n", "u", "e">>
YesNoPrompt == <<"C", "o", "n", "t", "i", "n", "u", "e", "?", " ", "[", "y", "/", "n", "]">>

\* pieces of device output: pager prompts of the default and the configured patterns,
\* and other text
PagerPieces ==
    {<<>>, MorePrompt, AnyKeyPrompt, Upper(AnyKeyPrompt), YesNoPrompt,
     <<"-", "-", "-", " ", "M", "O", "R", "E", " ", "-", "-", "-">>,
     <<"H", "i", "t", " ", "a", "n", "y", " ", "k", "e", "y">>,
     <<"P", "r", "o", "c", "e", "e", "d", " ", "[", "y", "/", "n", "]">>,
     <<"a", "n", "y", " ", "k", "e", "y", " ", "o", "r", " ", "S", "P", "A", "C", "E">>,
     <<"A", "n", "y", " ", "k", "e", "y", " ", "[", "y", "/", "n", "]">>,
     <<"P", "a", "g", "e", " ", "e", "n", "d">>,
     <<"x">>}

\* output that follows a pager prompt: none, or just enough to push the first character
\* of "--More--" out of the last RecentWindow characters, or one character less
Junk(n) == [i \in 1..n |-> "x"]
PagerTails == {<<>>, Junk(RecentWindow - Len(MorePrompt)),
               Junk(RecentWindow - Len(MorePrompt) + 1)}

InitPager ==
    /\ full_output_buffer \in {p1 \o p2 \o tail : p1 \in PagerPieces, p2 \in PagerPieces,
                                                  tail \in PagerTails}
    /\ new_output = <<>> /\ elapsed = 0 /\ w = NoWait /\ wpc = "idle" /\ ret = NoRet
    /\ rx = <<>> /\ written = <<>> /\ at_call = [buffer |-> <<>>, rx_len |-> 0]
    /\ prev = NoCall /\ ncalls = 0
    /\ pagination_enabled \in BOOLEAN
    /\ CondIdle
    /\ ExecIdle
    /\ detected_prompt = None
    /\ prompt_symbol = <<">">>

\* pagination.py lines 60-108: one call of check_and_respond(ser, full_output_buffer)
PagerCheck(write_ok) ==
    /\ ncalls < MaxCalls
    /\ ncalls' = ncalls + 1
    /\ LET r == respond(pagination_enabled, full_output_buffer, write_ok)
       IN  /\ written' = IF r.handled THEN Append(written, r.write) ELSE written
           /\ ret' = [NoRet EXCEPT !.found = r.handled,
                                   !.via = IF write_ok THEN "pager" ELSE "pager_write_error"]
    /\ at_call' = [buffer |-> full_output_buffer, rx_len |-> Len(rx)]
    /\ UNCHANGED <<full_output_buffer, new_output, elapsed, w, wpc, rx, prev,
                   pagination_enabled>>
    /\ UNCHANGED <<condVars, execVars>>
    /\ UNCHANGED <<filterVars, legacyVars, loginVars, appVars>>

\* serial_handler.py lines 299-303: the device sends more and the read appends it
PagerData(piece) ==
    /\ rx = <<>>
    /\ piece # <<>>
    /\ full_output_buffer' = full_output_buffer \o piece
    /\ rx' = piece
    /\ UNCHANGED <<new_output, elapsed, w, wpc, ret, written, at_call, prev, ncalls,
                   pagination_enabled>>
    /\ UNCHANGED <<condVars, execVars>>
    /\ UNCHANGED <<filterVars, legacyVars, loginVars, appVars>>

NextPager ==
    \/ \E write_ok \in BOOLEAN : PagerCheck(write_ok)
    \/ \E piece \in {MorePrompt, <<"x">>} : PagerData(piece)

SpecPager == InitPager /\ [][NextPager]_vars

\* the response the rule order gives: 'space', 'continue' or '--more--' -> one space;
\* else 'any key' -> newline; else '[y/n]' or 'continue?' -> 'y' newline; else one space
RuleResponse(prompt) ==
    LET m == Lower(prompt)
    IN  CASE Contains(m, <<"s", "p", "a", "c", "e">>) \/ Contains(m, <<"c", "o", "n", "t", "i", "n", "u", "e">>)
                 \/ Contains(m, <<"-", "-", "m", "o", "r", "e", "-", "-">>) -> <<" ">>
          [] Contains(m, <<"a", "n", "y", " ", "k", "e", "y">>) -> <<"\n">>
          [] Contains(m, <<"[", "y", "/", "n", "]">>) \/ Contains(m, <<"c", "o", "n", "t", "i", "n", "u", "e", "?">>) -> <<"y", "\n">>
          [] OTHER -> <<" ">>

TailPrompt(buffer) == pagination_prompt(recent_output(buffer))

C15_KeystrokePerPrompt ==
    (ret.via = "pager" /\ pagination_enabled)
        => \A kind \in {<<MorePrompt, <<" ">>>>, <<AnyKeyPrompt, <<"\n">>>>,
                        <<YesNoPrompt, <<"y", "\n">>>>} :
               (EndsWith(at_call.buffer, kind[1]) /\ TailPrompt(at_call.buffer) = kind[1])
                   => (ret.found /\ written # <<>> /\ written[Len(written)] = kind[2])

----------------------------------------------------------------------------
(* config/config_manager.py: ConfigManager.filter_login_steps *)

ShortPayload == 20

\* lines 297-298, 311 and 321
login_keywords ==
    {<<"l", "o", "g", "i", "n", ":">>, <<"u", "s", "e", "r", "n", "a", "m", "e", ":">>, <<"u", "s", "e", "r", ":">>, <<"p", "a", "s", "s", "w", "o", "r", "d", ":">>, <<"a", "d", "m", "i", "n">>, <<"e", "n", "a", "b", "l", "e">>}
common_login_cmds == {<<"a", "d", "m", "i", "n">>, <<"e", "n", "a", "b", "l", "e">>, <<"l", "o", "g", "i", "n">>, <<"s", "u">>}
prompt_tokens == {<<"p", "r", "o", "m", "p", "t">>, <<">">>, <<"#">>, <<"$">>}
operational_markers ==
    {<<"s", "h", "o", "w">>, <<"c", "o", "n", "f", "i", "g">>, <<"d", "i", "s", "p", "l", "a", "y">>, <<"g", "e", "t">>, <<"s", "e", "t">>}

\* lines 321 and 326: any(cmd in command.command.lower() for cmd in [...])
has_marker(text) ==
    LET lowered == <<>> \o Lower(text)
    IN  \E cmd \in operational_markers : Contains(lowered, cmd)

\* mutant: a wait for a bare prompt token is not taken for a login wait
is_login_wait_keywords_only(command) ==
    /\ Truthy(command.expected_text)
    /\ LET wait_value_lower == strip(Lower(command.expected_text))
       IN  \E keyword \in login_keywords : Contains(wait_value_lower, keyword)

\* lines 305-312: a wait that belongs to the login
is_login_wait(command) ==
    /\ Truthy(command.expected_text)
    /\ LET wait_value_lower == strip(Lower(command.expected_text))
       IN  \/ \E keyword \in login_keywords : Contains(wait_value_lower, keyword)
           \/ wait_value_lower \in prompt_tokens

\* lines 313-323: a send that belongs to the login
is_login_send(command) ==
    /\ Truthy(command.command)
    /\ LET send_value_lower == strip(Lower(command.command))
       IN  \/ \E keyword \in login_keywords : Contains(send_value_lower, keyword)
           \/ send_value_lower \in common_login_cmds
           \/ (Len(strip(command.command)) < ShortPayload /\ ~has_marker(command.command))

\* lines 326-334: the command shows that the login is over
past_login(command) ==
    \/ /\ command.command_type = "send_only"
       /\ Truthy(command.command)
       /\ has_marker(command.command)
    \/ /\ command.command_type = "wait_for_output"
       /\ Truthy(command.command)
       /\ command.expected_text = PROMPT

\* mutant: the login tests are applied to a step of any type
is_login_step_any_type(command, in_login) ==
    /\ in_login
    /\ ~past_login(command)
    /\ (is_login_wait(command) \/ is_login_send(command))

\* lines 302-334: is_login_step at the end of one iteration
is_login_step(command, in_login) ==
    /\ in_login
    /\ ~past_login(command)
    /\ \/ (command.command_type = "wait_for_output" /\ is_login_wait(command))
       \/ (command.command_type = "send_only" /\ is_login_send(command))

\* mutant: the login sequence is over once one login step was dropped
in_login_after_one_step(command, in_login) ==
    in_login /\ ~past_login(command) /\ ~is_login_step(command, in_login)

\* mutant: any step that is not a command puts the walk back into the login sequence
in_login_after_rearmed(command, in_login) == ~past_login(command)

\* lines 304-334: in_login_sequence at the end of one iteration
in_login_after(command, in_login) == in_login /\ ~past_login(command)

\* lines 296-342 as a function of the list
RECURSIVE filter_walk(_, _, _, _)
filter_walk(cmds, i, in_login, out) ==
    IF i > Len(cmds) THEN out
    ELSE filter_walk(cmds, i + 1, in_login_after(cmds[i], in_login),
                     IF is_login_step(cmds[i], in_login) THEN out ELSE Append(out, cmds[i]))

filter_login_steps(cmds) == filter_walk(cmds, 1, TRUE, <<>>)

\* lines 301-339: one iteration of the loop
FilterStep ==
    /\ filter_index < Len(playbook)
    /\ LET command == playbook[filter_index + 1]
       IN  /\ filtered_commands' = IF is_login_step(command, in_login_sequence)
                                   THEN filtered_commands
                                   ELSE Append(filtered_commands, command)
           /\ in_login_sequence' = in_login_after(command, in_login_sequence)
    /\ filter_index' = filter_index + 1
    /\ UNCHANGED playbook
    /\ UNCHANGED <<engineVars, condVars, execVars, loginVars, appVars, legacyVars>>

----------------------------------------------------------------------------
(* filter_login_steps walking parsed playbooks *)

MaxFilterLen == 3

LoginPrompt == <<"l", "o", "g", "i", "n", ":">>
PasswordPrompt == <<"P", "a", "s", "s", "w", "o", "r", "d", ":">>
Username == <<"a", "d", "m", "i", "n">>
ShowVersion == <<"s", "h", "o", "w", " ", "v", "e", "r", "s", "i", "o", "n">>
\* a command that spells a login keyword
SetAdmin == <<"s", "e", "t", " ", "a", "d", "m", "i", "n">>
\* short secrets: one free of the operational markers, one that spells "set"
Secrets == {<<"s", "e", "c", "r", "e", "t">>, <<"s", "u", "n", "s", "e", "t">>}

FilterKinds ==
    {Send(Username), Wait(PasswordPrompt), Wait(PROMPT),
     Regular(ShowVersion), Send(<<>>), Wait(<<"R", "e", "a", "d", "y">>),
     Send(<<"p", "i", "n", "g", " ", "1", "0", ".", "0", ".", "0", ".", "1", " ", "r", "e", "p", "e", "a", "t", " ", "5">>),
     Send(SetAdmin), If(<<"if_contains">>, <<"R", "e", "a", "d", "y">>),
     Elif(<<"elif_contains">>, <<"l", "o", "g", "i", "n", ":">>), Else, Endif}
       \cup {Send(secret) : secret \in Secrets}

\* the playbook of a login followed by a first command
LoginPlaybook(secret) ==
    <<Wait(LoginPrompt), Send(Username), Wait(PasswordPrompt), Send(secret), Wait(PROMPT),
      Send(ShowVersion)>>

FilterInputs ==
    UNION {[1..n -> FilterKinds] : n \in 0..MaxFilterLen}
      \cup {LoginPlaybook(secret) \o tail :
                secret \in Secrets, tail \in UNION {[1..n -> FilterKinds] : n \in 0..1}}

InitFilter ==
    /\ EngineIdle
    /\ pagination_enabled = TRUE
    /\ CondIdle
    /\ commands = <<>> /\ pc = "Idle" /\ command_index = 0 /\ completed_commands = 0
    /\ total_commands = 0 /\ success = TRUE /\ obs = NoObs
    /\ detected_prompt = None
    /\ prompt_symbol = <<">">>
    /\ LoginIdle
    /\ AppIdle
    /\ LegacyIdle
    /\ playbook \in FilterInputs
    /\ filter_index = 0
    /\ filtered_commands = <<>>
    /\ in_login_sequence = TRUE

NextFilter == FilterStep

SpecFilter == InitFilter /\ [][NextFilter]_vars

FilterDone == filter_index = Len(playbook)

\* the playbook is [WAIT login:, SEND admin, WAIT Password:, SEND <short secret>,
\* WAIT PROMPT, SEND show version, ...]
IsLoginPlaybook ==
    /\ Len(playbook) >= 6
    /\ playbook[4].command_type = "send_only"
    /\ playbook[4].command # <<>>
    /\ Len(playbook[4].command) < ShortPayload
    /\ SubSeq(playbook, 1, 6) = LoginPlaybook(playbook[4].command)

\* the output is the input from its sixth step on: the five login steps, SEND admin
\* among them, are gone
OnlyFromFirstCommand ==
    /\ filtered_commands = SubSeq(playbook, 6, Len(playbook))
    /\ Len(filtered_commands) = Len(playbook) - 5

\* C16 as stated: for any short secret, filter_login_steps on the login playbook
\* returns only the steps from SEND show version on; SEND admin is never kept.
C16_LoginPrefixDropped ==
    (FilterDone /\ IsLoginPlaybook) => OnlyFromFirstCommand

\* C16 amended: the same for a short secret that contains none of
\* show/config/display/get/set.
C16_LoginPrefixDroppedNoMarker ==
    (FilterDone /\ IsLoginPlaybook /\ ~has_marker(playbook[4].command))
        => OnlyFromFirstCommand

\* C16 witness: the login playbook with the secret "secret" and a step after the first
\* command was filtered down to the first command and that step
C16_Witness ==
    /\ FilterDone /\ IsLoginPlaybook
    /\ playbook[4].command = <<"s", "e", "c", "r", "e", "t">>
    /\ Len(playbook) = 7
    /\ Len(filtered_commands) = 2
    /\ filtered_commands[1] = Send(ShowVersion)

\* a SEND whose payload contains show/config/display/get/set, or a command-bearing
\* PROMPT step
IsCommandStep(command) ==
    \/ (command.command_type = "send_only" /\ has_marker(command.command))
    \/ (command.command_type = "wait_for_output" /\ command.command # <<>>
            /\ command.expected_text = PROMPT)

\* the steps walked so far that are command steps
CommandStepsWalked(n) == {k \in 1..n : IsCommandStep(playbook[k])}

\* the last n steps of the output are the steps k..(k + n - 1) of the input
OutputEndsWith(out, k, n) ==
    /\ Len(out) >= n
    /\ SubSeq(out, Len(out) - n + 1, Len(out)) = SubSeq(playbook, k, k + n - 1)

RECURSIVE IsSubsequence(_, _)
IsSubsequence(sub, seq) ==
    IF sub = <<>> THEN TRUE
    ELSE IF seq = <<>> THEN FALSE
    ELSE IF Head(sub) = Head(seq) THEN IsSubsequence(Tail(sub), Tail(seq))
    ELSE IsSubsequence(sub, Tail(seq))

\* how many steps of seq have the type command_type
CountOfType(seq, command_type) ==
    Cardinality({k \in 1..Len(seq) : seq[k].command_type = command_type})

\* C18: the output of filter_login_steps is an order-preserving subsequence of the
\* input walked so far that holds every IF/ELIF/ELSE/ENDIF step of it; an iteration
\* either appends the input step as it is or drops a send_only or wait_for_output
\* step; the input list is never modified.
C18_OrderPreservingSubsequence ==
    [][LET walked == SubSeq(playbook, 1, filter_index')
           command == playbook[filter_index']
       IN  /\ playbook' = playbook
           /\ IsSubsequence(filtered_commands', walked)
           /\ \A t \in ControlTypes :
                  CountOfType(filtered_commands', t) = CountOfType(walked, t)
           /\ \/ filtered_commands' = Append(filtered_commands, command)
              \/ /\ filtered_commands' = filtered_commands
                 /\ command.command_type \in {"send_only", "wait_for_output"}
      ]_vars

\* C18 witness: SEND admin between IF and ENDIF was dropped, the block's own steps
\* were kept in their order
C18_Witness ==
    /\ FilterDone
    /\ playbook = <<If(<<"if_contains">>, <<"R", "e", "a", "d", "y">>), Send(Username), Endif>>
    /\ filtered_commands = <<If(<<"if_contains">>, <<"R", "e", "a", "d", "y">>), Endif>>

\* a SEND whose payload is shorter than 20 characters and holds no operational marker
IsShortSend(command) ==
    /\ command.command_type = "send_only"
    /\ Len(command.command) < ShortPayload
    /\ ~has_marker(command.command)

\* C29: while in_login_sequence is true every SEND with a payload shorter than 20
\* characters and without show/config/display/get/set is dropped, a SEND with an
\* empty payload included: as long as the walk is in the login sequence the output
\* holds no such step.
C29_ShortSendsDropped ==
    in_login_sequence =>
        \A i \in 1..Len(filtered_commands) : ~IsShortSend(filtered_commands[i])

----------------------------------------------------------------------------
(* core/playbook_executor.py: PlaybookExecutor.handle_login_sequence *)

\* lines 438, 454: the texts the first two waits are called with
username_prompt == <<"u", "s", "e", "r", "n", "a", "m", "e", ":">>
password_prompt == <<"p", "a", "s", "s", "w", "o", "r", "d", ":">>

\* one round of the sequence: a wait for text or a send of text, and how it ended
Round(kind, text, ok) == [kind |-> kind, text |-> text, ok |-> ok]

\* a return statement of handle_login_sequence; wait_for_output is not running
LoginReturn(rounds, result) ==
    /\ login' = [login EXCEPT !.pc = "returned", !.rounds = rounds, !.result = result]
    /\ wpc' = "idle"
    /\ UNCHANGED <<full_output_buffer, new_output, elapsed, w, ret, at_call>>

\* send_command(payload) succeeded and the next wait_for_output is called
LoginSendThenWait(rounds, payload, expected_text, next_pc) ==
    /\ written' = Append(written, sent_bytes(payload))
    /\ EnterWait(expected_text, MaxTimeout, detected_prompt, prompt_symbol, TRUE, TRUE)
    /\ login' = [login EXCEPT !.pc = next_pc,
                              !.rounds = Append(rounds, Round("send", payload, TRUE))]

\* lines 432-440: handle_login_sequence(username, password) up to its first wait
StartLogin(username, password) ==
    /\ login.pc = "idle"
    /\ wpc = "idle"
    /\ EnterWait(username_prompt, MaxTimeout, detected_prompt, prompt_symbol, TRUE, TRUE)
    /\ login' = [login EXCEPT !.pc = "username_wait", !.username = username,
                              !.password = password]
    /\ UNCHANGED <<rx, written, prev, ncalls, pagination_enabled>>
    /\ UNCHANGED <<condVars, execVars, filterVars, legacyVars, appVars>>

\* lines 442-455: the wait for the username prompt has returned.
\* write_ok = FALSE: ser.write raised and send_command returned False
AfterUsernameWait(write_ok) ==
    LET waited == Append(login.rounds, Round("wait", username_prompt, ret.found))
    IN  /\ login.pc = "username_wait"
        /\ wpc = "returned"
        /\ IF ~ret.found
           THEN LoginReturn(waited, "false") /\ UNCHANGED written
           ELSE IF ~write_ok
           THEN LoginReturn(Append(waited, Round("send", login.username, FALSE)), "false")
                    /\ UNCHANGED written
           ELSE LoginSendThenWait(waited, login.username, password_prompt, "password_wait")
        /\ UNCHANGED <<rx, prev, ncalls, pagination_enabled>>
        /\ UNCHANGED <<condVars, execVars, filterVars, legacyVars, appVars>>

\* mutant: the password is sent whatever the wait for its prompt returned
AfterPasswordWait_unconditional_send(write_ok) ==
    LET waited == Append(login.rounds, Round("wait", password_prompt, ret.found))
    IN  /\ login.pc = "password_wait"
        /\ wpc = "returned"
        /\ IF ~write_ok
           THEN LoginReturn(Append(waited, Round("send", login.password, FALSE)), "false")
                    /\ UNCHANGED written
           ELSE LoginSendThenWait(waited, login.password, PROMPT, "prompt_wait")
        /\ UNCHANGED <<rx, prev, ncalls, pagination_enabled>>
        /\ UNCHANGED <<condVars, execVars, filterVars, legacyVars, appVars>>

\* lines 457-470: the wait for the password prompt has returned
AfterPasswordWait(write_ok) ==
    LET waited == Append(login.rounds, Round("wait", password_prompt, ret.found))
    IN  /\ login.pc = "password_wait"
        /\ wpc = "returned"
        /\ IF ~ret.found
           THEN LoginReturn(waited, "false") /\ UNCHANGED written
           ELSE IF ~write_ok
           THEN LoginReturn(Append(waited, Round("send", login.password, FALSE)), "false")
                    /\ UNCHANGED written
           ELSE LoginSendThenWait(waited, login.password, PROMPT, "prompt_wait")
        /\ UNCHANGED <<rx, prev, ncalls, pagination_enabled>>
        /\ UNCHANGED <<condVars, execVars, filterVars, legacyVars, appVars>>

\* lines 472-477: the wait for the command prompt has returned
AfterPromptWait ==
    /\ login.pc = "prompt_wait"
    /\ wpc = "returned"
    /\ LoginReturn(Append(login.rounds, Round("wait", PROMPT, ret.found)),
                   IF ret.found THEN "true" ELSE "false")
    /\ UNCHANGED <<rx, written, prev, ncalls, pagination_enabled>>
    /\ UNCHANGED <<condVars, execVars, filterVars, legacyVars, appVars>>

----------------------------------------------------------------------------
(* One call of handle_login_sequence after read_initial_output, against a   *)
(* device that sends login prompts, a command prompt and pager prompts       *)

MaxLoginRx == 27       \* characters the device sends during one login

LoginPieces ==
    {username_prompt, password_prompt, PasswordPrompt,
     <<"s", "w", "i", "t", "c", "h", ">">>, <<"m", "o", "r", "e", " ", "~">>}

InitLogin ==
    /\ EngineIdle
    /\ pagination_enabled = TRUE
    /\ CondIdle
    /\ ExecIdle
    /\ detected_prompt = None
    /\ prompt_symbol = <<">">>

LoginFits(piece) == Len(rx) + Len(piece) <= MaxLoginRx

NextLogin ==
    \/ rx = <<>> /\ login.pc = "idle" /\ \E data \in LoginPieces : ReadInitialOutput(data)
    \/ \E password \in Secrets : StartLogin(Username, password)
    \/ \E ok \in BOOLEAN : AfterUsernameWait(ok)
    \/ \E ok \in BOOLEAN : AfterPasswordWait(ok)
    \/ AfterPromptWait
    \/ wpc = "polling" /\ \E chunk \in {p \in LoginPieces : LoginFits(p)}, ok \in BOOLEAN :
                               PollData(chunk, ok)
    \/ PollEmpty
    \/ PollSerialException
    \/ PollOtherException
    \/ Tick
    \/ WaitTimeout

SpecLogin == InitLogin /\ [][NextLogin]_vars

\* the five rounds of a login with the credentials of the call, all successful
LoginOrder ==
    <<Round("wait", username_prompt, TRUE), Round("send", login.username, TRUE),
      Round("wait", password_prompt, TRUE), Round("send", login.password, TRUE),
      Round("wait", PROMPT, TRUE)>>

\* the rounds made so far follow the order, and only the last of them can have failed
RoundsInOrder ==
    /\ Len(login.rounds) <= Len(LoginOrder)
    /\ \A i \in 1..Len(login.rounds) :
          /\ login.rounds[i].kind = LoginOrder[i].kind
          /\ login.rounds[i].text = LoginOrder[i].text
          /\ i < Len(login.rounds) => login.rounds[i].ok

LoginFailed == \E i \in 1..Len(login.rounds) : ~login.rounds[i].ok

\* what was written to the transport apart from the pager keystrokes
CredentialsWritten == SelectSeq(written, LAMBDA bytes : bytes # pagination_response)

\* C19: handle_login_sequence makes its rounds in the order wait username: -> send
\* username -> wait password: -> send password -> wait PROMPT; it returns true only
\* after five successful rounds; a failed round is the last one and makes it return
\* false; the password is written only after the wait for its prompt succeeded, and
\* after the username.
C19_LoginInOrder ==
    /\ RoundsInOrder
    /\ login.result = "true" => (login.rounds = LoginOrder)
    /\ LoginFailed => (login.pc = "returned" /\ login.result = "false")
    /\ login.pc = "returned" => wpc = "idle"
    /\ IF Len(login.rounds) >= 4 /\ login.rounds[4].ok
       THEN /\ login.rounds[3].ok
            /\ CredentialsWritten = <<sent_bytes(login.username), sent_bytes(login.password)>>
       ELSE IF Len(login.rounds) >= 2 /\ login.rounds[2].ok
       THEN login.rounds[1].ok /\ CredentialsWritten = <<sent_bytes(login.username)>>
       ELSE CredentialsWritten = <<>>

\* C19 witness: the login went through all five rounds and returned true
C19_Witness ==
    /\ login.pc = "returned"
    /\ login.result = "true"
    /\ login.rounds = LoginOrder
    /\ written = <<sent_bytes(Username), sent_bytes(login.password)>>

----------------------------------------------------------------------------
(* core/prompt_detector.py: PromptDetector.detect_prompt_from_output *)

ScanWindow == 15
PatternCount == 5

\* \w, and the character classes of the patterns of lines 44-48
WordChars ==
    {"a", "b", "c", "d", "e", "f", "g", "h", "i", "j", "k", "l", "m", "n", "o", "p", "q", "r", "s", "t", "u", "v", "w", "x", "y", "z", "A", "B", "C", "D", "E", "F", "G", "H", "I", "J", "K", "L", "M", "N", "O", "P", "Q", "R", "S", "T", "U", "V", "W", "X", "Y", "Z", "0", "1", "2", "3", "4", "5", "6", "7", "8", "9", "_"}
HostChars == WordChars \cup {"-", ".", "@"}
NameChars == WordChars \cup {"-", "."}
PathChars == WordChars \cup {"/"}

\* line 58
skip_words == {<<"p", "a", "s", "s", "w", "o", "r", "d">>, <<"l", "o", "g", "i", "n">>, <<"w", "e", "l", "c", "o", "m", "e">>, <<"l", "a", "s", "t", " ", "l", "o", "g", "i", "n">>}

AllIn(t, a, b, S) == \A k \in a..b : t[k] \in S

\* Every pattern ends in \s*$ after a character that is not whitespace, so it matches
\* t up to its last character when t is the line without its trailing whitespace.
\* pattern_starts(n, t): the positions of t from which pattern n (lines 44-48, in
\* order) matches up to the end of t.
pattern_starts(n, t) ==
    LET last == Len(t)
    IN  IF last = 0 THEN {}
        ELSE CASE n = 1 ->
                    \* [\w\-\.@]+\([^)]+\)[>#]
                    {i \in 1..last :
                       /\ t[last] \in {">", "#"}
                       /\ last >= 2 /\ t[last - 1] = ")"
                       /\ \E q \in (i + 1)..(last - 3) :
                             /\ t[q] = "("
                             /\ AllIn(t, i, q - 1, HostChars)
                             /\ \A k \in (q + 1)..(last - 2) : t[k] # ")"}
               [] n = 2 ->
                    \* [\w\-\.@]+[:#]\~?[\w/]*[\$>#]
                    {i \in 1..last :
                       /\ t[last] \in {"$", ">", "#"}
                       /\ \E q \in (i + 1)..(last - 1) :
                             /\ t[q] \in {":", "#"}
                             /\ AllIn(t, i, q - 1, HostChars)
                             /\ \/ AllIn(t, q + 1, last - 1, PathChars)
                                \/ /\ q + 1 <= last - 1
                                   /\ t[q + 1] = "~"
                                   /\ AllIn(t, q + 2, last - 1, PathChars)}
               [] n = 3 ->
                    \* [\w\-\.]+[>#]
                    {i \in 1..(last - 1) :
                       t[last] \in {">", "#"} /\ AllIn(t, i, last - 1, NameChars)}
               [] n = 4 ->
                    \* [>#]
                    {i \in {last} : t[last] \in {">", "#"}}
               [] OTHER ->
                    \* [\w\-\.]+:
                    {i \in 1..(last - 1) :
                       t[last] = ":" /\ AllIn(t, i, last - 1, NameChars)}

\* lines 63-65: re.search(pattern, line).group(), the leftmost match, or None
pattern_search(n, line) ==
    LET starts == pattern_starts(n, rstrip(line))
    IN  IF starts = {} THEN None
        ELSE SubSeq(line, CHOOSE i \in starts : \A j \in starts : i <= j, Len(line))

\* lines 61-67: the first pattern that matches the line gives the result, stripped
line_prompt(line) ==
    LET matching == {n \in 1..PatternCount : pattern_search(n, line) # None}
    IN  IF matching = {} THEN None
        ELSE strip(pattern_search(CHOOSE n \in matching : \A m \in matching : n <= m, line))

\* mutant: the noise words are looked for in the line as it is written
is_skipped_case_sensitive(line) == \E skip \in skip_words : Contains(line, skip)

\* line 58: the line holds one of the noise words
is_skipped(line) ==
    LET lowered == <<>> \o Lower(line)
    IN  \E skip \in skip_words : Contains(lowered, skip)

\* line 52: lines[-15:]
last_lines(lines) == SubSeq(lines, Max(1, Len(lines) - ScanWindow + 1), Len(lines))

\* lines 52-73: the lines from k down to 1
RECURSIVE scan_lines(_, _)
scan_lines(lines, k) ==
    IF k = 0 THEN None
    ELSE LET line == strip(lines[k])
         IN  IF line = <<>> \/ is_skipped(line) \/ line_prompt(line) = None
             THEN scan_lines(lines, k - 1)
             ELSE line_prompt(line)

\* lines 26-79
detect_prompt_from_output(buffer_text) ==
    IF ~Truthy(buffer_text) \/ strip(buffer_text) = <<>> THEN None
    ELSE LET lines == last_lines(split_lines(strip(buffer_text)))
         IN  scan_lines(lines, Len(lines))

\* main.py lines 229-234: the prompt is detected from the handler's buffer
DetectPrompt ==
    /\ obs.kind = "none"
    /\ detected_prompt' = detect_prompt_from_output(full_output_buffer)
    /\ obs' = [obs EXCEPT !.kind = "detect_prompt"]
    /\ UNCHANGED <<commands, pc, command_index, completed_commands, total_commands, success,
                   prompt_symbol>>
    /\ UNCHANGED <<engineVars, condVars, filterVars, legacyVars, loginVars, appVars>>

----------------------------------------------------------------------------
(* detect_prompt_from_output on buffers of device lines *)

MaxPromptLines == 3

ConfigPrompt == <<"s", "w", "i", "t", "c", "h", "0", "1", "(", "c", "o", "n", "f", "i", "g", ")", "#">>

PromptLines ==
    {ConfigPrompt,
     <<"P", "a", "s", "s", "w", "o", "r", "d", ":">>,
     <<"W", "e", "l", "c", "o", "m", "e", " ", "t", "o", " ", "s", "w", "i", "t", "c", "h", "0", "1", "#">>,
     <<"a", "d", "m", "i", "n", "@", "s", "w", "-", "1", ":", "~", "/", "t", "m", "p", "$">>,
     <<"s", "h", "o", "w", " ", "v", "e", "r", "s", "i", "o", "n">>,
     <<" ", " ", "L", "a", "b", " ", "s", "w", "-", "1", ".", "l", "a", "b", ">", " ", " ">>,
     <<"L", "a", "s", "t", " ", "L", "o", "g", "i", "n", ":", " ", "t", "t", "y", "S", "0", " ", "#">>,
     <<"U", "s", "e", "r", "n", "a", "m", "e", ":">>,
     <<>>}

\* older output: n lines that hold no prompt
Filler(n) == [i \in 1..n |-> <<"u", "p", "t", "i", "m", "e", " ", "i", "s", " ", "4", " ", "d", "a", "y", "s">>]

PromptBuffers ==
    {join_lines(lines) : lines \in UNION {[1..n -> PromptLines] : n \in 1..MaxPromptLines}}
      \cup {join_lines(<<first>> \o Filler(n) \o blank \o <<last>>) :
                first \in {ConfigPrompt}, n \in {ScanWindow - 2, ScanWindow - 1},
                blank \in {<<>>, <<<<>>>>},
                last \in {<<"P", "a", "s", "s", "w", "o", "r", "d", ":">>, <<" ", " ", "L", "a", "b", " ", "s", "w", "-", "1", ".", "l", "a", "b", ">", " ", " ">>}}

InitPrompt ==
    /\ full_output_buffer \in PromptBuffers
    /\ new_output = <<>> /\ elapsed = 0 /\ w = NoWait /\ wpc = "idle" /\ ret = NoRet
    /\ rx = <<>> /\ written = <<>> /\ at_call = [buffer |-> <<>>, rx_len |-> 0]
    /\ prev = NoCall /\ ncalls = 0
    /\ pagination_enabled = TRUE
    /\ CondIdle
    /\ ExecIdle
    /\ detected_prompt = None
    /\ prompt_symbol = <<">">>

NextPrompt == DetectPrompt

SpecPrompt == InitPrompt /\ [][NextPrompt]_vars

Detected == obs.kind = "detect_prompt"

\* the lines the detector looks at, stripped, oldest first
ScannedLines ==
    LET lines == last_lines(split_lines(strip(full_output_buffer)))
    IN  [k \in 1..Len(lines) |-> strip(lines[k])]

\* the line holds password, login or welcome in any case
HasNoise(line) ==
    \E word \in {<<"p", "a", "s", "s", "w", "o", "r", "d">>, <<"l", "o", "g", "i", "n">>, <<"w", "e", "l", "c", "o", "m", "e">>} : Contains(<<>> \o Lower(line), word)

\* a candidate line: no noise, and a prompt can be taken from it
IsCandidate(line) == line # <<>> /\ ~HasNoise(line) /\ line_prompt(line) # None

\* C20: the result of detect_prompt_from_output is the prompt of the most recent
\* candidate line, trimmed: a trailing line "switch01(config)#" is returned as it is;
\* a line that holds password, login or welcome is never the line the result is
\* taken from; the result is none exactly when no scanned line is a candidate.
C20_PromptOfLastCandidate ==
    Detected =>
      LET lines == ScannedLines
          candidates == {k \in 1..Len(lines) : IsCandidate(lines[k])}
      IN  /\ (lines # <<>> /\ lines[Len(lines)] = ConfigPrompt)
                => detected_prompt = ConfigPrompt
          /\ (detected_prompt = None) = (candidates = {})
          /\ candidates # {} =>
                LET k == CHOOSE c \in candidates : \A d \in candidates : d <= c
                IN  /\ detected_prompt = line_prompt(lines[k])
                    /\ EndsWith(lines[k], detected_prompt)
                    /\ detected_prompt = strip(detected_prompt)
                    /\ detected_prompt # <<>>

\* C20 witness: the last line is "Password:", the line before it holds welcome and
\* ends like a prompt, and the result is the prompt of the line before those
C20_Witness ==
    /\ Detected
    /\ full_output_buffer = join_lines(<<<<" ", " ", "L", "a", "b", " ", "s", "w", "-", "1", ".", "l", "a", "b", ">", " ", " ">>, <<"W", "e", "l", "c", "o", "m", "e", " ", "t", "o", " ", "s", "w", "i", "t", "c", "h", "0", "1", "#">>, <<"P", "a", "s", "s", "w", "o", "r", "d", ":">>>>)
    /\ detected_prompt = <<"s", "w", "-", "1", ".", "l", "a", "b", ">">>

\* the non-empty lines of the buffer, stripped, oldest first
NonEmptyLines ==
    LET lines == split_lines(strip(full_output_buffer))
    IN  SelectSeq([k \in 1..Len(lines) |-> strip(lines[k])], LAMBDA line : line # <<>>)

\* C30: the result of detect_prompt_from_output is taken from the 15 most recent
\* non-empty lines of the buffer: it is the prompt of the most recent candidate among
\* them, blank lines in between notwithstanding, and no older line is used.
C30_LastFifteenNonEmptyLines ==
    Detected =>
      LET lines == NonEmptyLines
          recent == SubSeq(lines, Max(1, Len(lines) - ScanWindow + 1), Len(lines))
          candidates == {k \in 1..Len(recent) : IsCandidate(recent[k])}
      IN  IF candidates = {} THEN detected_prompt = None
          ELSE detected_prompt =
                   line_prompt(recent[CHOOSE c \in candidates : \A d \in candidates : d <= c])

----------------------------------------------------------------------------
(* One run of execute_playbook after read_initial_output *)

ExecChars == {"a", ">", "~"}

StepKinds == {Send(<<"a">>), Wait(<<"a">>), Regular(<<"a">>),
              If(<<"if_contains">>, <<"a">>), Endif}

Playbooks == UNION {[1..n -> StepKinds] : n \in 0..MaxCmds}

Init ==
    /\ EngineIdle
    /\ pagination_enabled = TRUE
    /\ CondIdle
    /\ ExecIdle
    /\ detected_prompt = None
    /\ prompt_symbol = <<">">>

ProgramStep ==
    \* main.py: with no prompt detected, the run gets the fallback symbol as prompt
    \/ pc = "Idle" /\ \E cmds \in Playbooks : StartPlaybook(cmds, <<">">>, <<">">>)
    \/ SkipStep
    \/ ExecConditional
    \/ \E ok \in BOOLEAN : ExecSend(ok)
    \/ ExecWaitSendFails
    \/ ExecWait
    \/ FinishWaitStep
    \/ WaitTimeout
    \/ ReturnFromLoop

Next ==
    \/ pc = "Idle" /\ rx = <<>> /\ \E data \in Chunks(ExecChars, MaxExecRx) : ReadInitialOutput(data)
    \/ ProgramStep
    \/ wpc = "polling" /\ \E chunk \in Chunks(ExecChars, MaxExecRx - Len(rx)), ok \in BOOLEAN :
                               PollData(chunk, ok)
    \/ PollEmpty
    \/ PollSerialException
    \/ PollOtherException
    \/ Tick

Spec == Init /\ [][Next]_vars

\* the wall clock advances, and the program takes its next step when it has one
FairSpec == Spec /\ WF_vars(Tick) /\ WF_vars(ProgramStep)

----------------------------------------------------------------------------
(* Claims about execute_playbook, checked under Spec and FairSpec *)

Terminal == pc \in {"Completed", "Aborted"}
Failed == obs.failed_at # -1

\* C6: once an executed step has failed (a send that cannot be written, a wait that
\* timed out or ended on an error), execute_playbook has returned false and nothing
\* more happens: no command is processed, nothing is written, no wait is started.
C6_FailureStopsRun ==
    [][/\ Failed' => (pc' = "Aborted" /\ ~success' /\ wpc' # "polling")
       /\ Failed => UNCHANGED <<written, rx, wpc, command_index, completed_commands, obs,
                                condVars>>]_vars

\* C6 witness: a wait step timed out and the commands after it were never processed
C6_Witness ==
    /\ pc = "Aborted"
    /\ obs.kind = "wait" /\ ret.via = "timeout"
    /\ obs.failed_at + 1 < Len(commands)
    /\ obs.steps = obs.failed_at + 1

\* C7: execute_playbook returns true iff no executed step failed;
\* completed_commands <= total_commands throughout, = total_commands when it returns
\* true, and on an abort = the number of steps, executed or skipped, before the failed
\* one; a failure is never followed by a running state.
C7_NoPartialSuccess ==
    /\ completed_commands <= total_commands
    /\ pc = "Completed" => (~Failed /\ success /\ completed_commands = total_commands)
    /\ pc = "Aborted" => (/\ Failed /\ ~success
                          /\ completed_commands = obs.failed_at
                          /\ completed_commands = obs.steps - 1)
    /\ pc \in {"Running", "Waiting"} => ~Failed

\* C7 witness: an abort at the third step, after two steps that were completed
C7_Witness ==
    /\ pc = "Aborted"
    /\ obs.failed_at = 2
    /\ completed_commands = 2
    /\ total_commands = 3

\* C8: a started run ends in Completed or in Aborted and stays there; command_index
\* never decreases and grows by one with every step handled in a run that goes on; a
\* wait polls only while its timeout has not elapsed - whatever the transport
\* delivers, however many pager prompts are answered and whatever errors the polls
\* raise.
C8_RunTerminates ==
    /\ [](pc \in {"Running", "Waiting"} => <>Terminal)
    /\ [][/\ Terminal => (pc' = pc)
          /\ command_index' >= command_index
          /\ (obs'.steps # obs.steps /\ pc' = "Running") => command_index' = command_index + 1
          /\ (wpc = "polling" /\ (rx' # rx \/ written' # written)) => elapsed < w.wait_timeout]_vars

\* C8 witness: a run ended by the timeout of a wait during which the device kept
\* sending data and two pager prompts were answered
C8_Witness ==
    /\ pc = "Aborted"
    /\ ret.via = "timeout"
    /\ Len(written) >= 2
    /\ written[Len(written)] = pagination_response
    /\ written[Len(written) - 1] = pagination_response
    /\ elapsed = w.wait_timeout

\* the loop is at a non-control step that conditional logic rules out
AtSkippedStep ==
    /\ AtCommand
    /\ commands[command_index + 1].command_type \notin ControlTypes
    /\ ~should_execute_command(condition_stack)

\* C26: a non-control step for which should_execute_command is false is passed over:
\* nothing is written or read, the session buffer, the condition stack and the last
\* captured output stay as they are, no wait is started, completed_commands grows by
\* one and the loop is at the next step.
C26_SkipOnlyAdvances ==
    [][AtSkippedStep =>
          /\ UNCHANGED <<written, rx, full_output_buffer, wpc, condition_stack,
                         last_command_output, success>>
          /\ completed_commands' = completed_commands + 1
          /\ command_index' = command_index + 1
          /\ pc' = "Running"]_vars

\* C26 witness: after a send that was written, a step inside a false IF branch was
\* skipped and counted
C26_Witness ==
    /\ obs.kind = "skip"
    /\ written # <<>>
    /\ condition_stack # <<>>
    /\ completed_commands = 3
    /\ command_index = 3

----------------------------------------------------------------------------
(* config/config_manager.py: ConfigManager, the playbook file *)

\* str.split(' ', 1)
split_once(line) ==
    IF Contains(line, <<" ">>)
    THEN <<Take(line, Find(line, <<" ">>)), Drop(line, Find(line, <<" ">>) + 1)>>
    ELSE <<line>>

\* str.startswith
StartsWith(s, t) == Len(t) <= Len(s) /\ SubSeq(s, 1, Len(t)) = t

\* lines 219-222: a value between two double or two single quotes loses them
unquote(value) ==
    IF /\ Len(value) >= 2
       /\ \/ Head(value) = "\"" /\ value[Len(value)] = "\""
          \/ Head(value) = "'" /\ value[Len(value)] = "'"
    THEN SubSeq(value, 2, Len(value) - 1)
    ELSE value

Digits == {"0", "1", "2", "3", "4", "5", "6", "7", "8", "9"}
DigitValue(c) ==
    CASE c = "0" -> 0 [] c = "1" -> 1 [] c = "2" -> 2 [] c = "3" -> 3 [] c = "4" -> 4
      [] c = "5" -> 5 [] c = "6" -> 6 [] c = "7" -> 7 [] c = "8" -> 8 [] c = "9" -> 9

RECURSIVE digits_value(_)
digits_value(s) ==
    IF s = <<>> THEN 0
    ELSE digits_value(SubSeq(s, 1, Len(s) - 1)) * 10 + DigitValue(s[Len(s)])

\* line 239: float(value) for a value written with digits and at most one point, in
\* tenths of a second (further decimals are dropped); -1 stands for ValueError
float_tenths(value) ==
    LET dot == Find(value, <<".">>)
        whole == IF dot = -1 THEN value ELSE Take(value, dot)
        frac == IF dot = -1 THEN <<>> ELSE Drop(value, dot + 1)
    IN  IF whole \o frac # <<>> /\ \A i \in 1..Len(whole \o frac) : (whole \o frac)[i] \in Digits
        THEN digits_value(whole) * 10 + (IF frac = <<>> THEN 0 ELSE DigitValue(frac[1]))
        ELSE -1

\* the characters of a word as the one token the command record carries
RECURSIVE word_token(_)
word_token(s) == IF s = <<>> THEN "" ELSE Head(s) \o word_token(Tail(s))

\* what _parse_playbook_line does with one line: the command it returns (NoCommand
\* for None), the success message it stores (None: left as it is), or an error raised
Parsed(command, message, error) == [command |-> command, message |-> message, error |-> error]

\* mutant: a SUCCESS line also becomes a step of the playbook
success_line_as_step(value) == Parsed(Command("send_only", value, None, MaxTimeout), value, FALSE)

\* lines 269-272: a SUCCESS line stores the message and adds no command
success_line(value) == Parsed(NoCommand, value, FALSE)

\* lines 202-280; get_wait_timeout() is MaxTimeout
parse_playbook_line(line) ==
    LET parts == split_once(line)
        action == Upper(parts[1])
        value == unquote(IF Len(parts) > 1 THEN strip(parts[2]) ELSE <<>>)
    IN  CASE action = <<"S", "E", "N", "D">> ->
                 Parsed(Command("send_only", value, None, MaxTimeout), None, FALSE)
          [] action = <<"W", "A", "I", "T">> ->
                 Parsed(Command("wait_for_output", <<>>, value, MaxTimeout), None, FALSE)
          [] action = <<"P", "A", "U", "S", "E">> ->
                 IF float_tenths(value) = -1 THEN Parsed(NoCommand, None, TRUE)
                 ELSE Parsed(Pause(float_tenths(value)), None, FALSE)
          [] StartsWith(action, <<"I", "F", "_">>) ->
                 Parsed(Command("IF", <<word_token(Lower(action))>>, value, MaxTimeout),
                        None, FALSE)
          [] StartsWith(action, <<"E", "L", "I", "F", "_">>) ->
                 Parsed(Command("ELIF", <<word_token(Lower(action))>>, value, MaxTimeout),
                        None, FALSE)
          [] action = <<"E", "L", "S", "E">> -> Parsed(Else, None, FALSE)
          [] action = <<"E", "N", "D", "I", "F">> -> Parsed(Endif, None, FALSE)
          [] action = <<"S", "U", "C", "C", "E", "S", "S">> -> success_line(value)
          [] OTHER -> Parsed(Command("wait_for_output", line, PROMPT, MaxTimeout), None, FALSE)

\* lines 185-198: the loop over the lines from line i (1-based) on, with the commands
\* and the success message collected so far
RECURSIVE parse_lines(_, _, _, _)
parse_lines(lines, i, cmds, message) ==
    IF i > Len(lines) THEN [commands |-> cmds, success_message |-> message]
    ELSE LET line == strip(lines[i])
         IN  IF line = <<>> \/ Head(line) = "#"
             THEN parse_lines(lines, i + 1, cmds, message)
             ELSE LET parsed == parse_playbook_line(line)
                  IN  parse_lines(lines, i + 1,
                                  IF parsed.command # NoCommand
                                  THEN Append(cmds, parsed.command) ELSE cmds,
                                  IF parsed.message # None THEN parsed.message ELSE message)

\* lines 172-200: _parse_playbook_content, and the success message it leaves behind
parse_playbook_content(content, message) ==
    parse_lines(split_lines(strip(content)), 1, <<>>, message)

----------------------------------------------------------------------------
(* main.py: SerialLinkUpdater.run *)

\* serial_handler.py lines 177-222: check_if_logged_in
check_if_logged_in(buffer, detected) ==
    LET buffer_lower == <<>> \o Lower(buffer)
    IN  IF \E login_indicator \in {<<"l", "o", "g", "i", "n", ":">>,
                                   <<"u", "s", "e", "r", "n", "a", "m", "e", ":">>,
                                   <<"p", "a", "s", "s", "w", "o", "r", "d", ":">>,
                                   <<"u", "s", "e", "r", " ", "n", "a", "m", "e", ":">>} :
               Contains(buffer_lower, login_indicator)
        THEN FALSE
        ELSE IF Truthy(detected) /\ Contains(buffer, detected) THEN TRUE
        ELSE \E prompt \in {"#", ">", "$"} : Contains(buffer, <<prompt>>)

\* serial_handler.py lines 128-149: what send_initialization_sequence writes
initialization_sequence == <<<<"\n">>, <<"^C">>, <<"\n">>>>

\* serial_handler.py lines 119-127: close_port; close_ok = FALSE: ser.close() raised
close_port(port, close_ok) == IF port = "open" /\ close_ok THEN "closed" ELSE port

\* mutant: the cleanup leaves the serial port as it is
cleanup_leaves_port(port, close_ok) == port

\* lines 337-349: cleanup closes the port through the serial handler, once there is one
cleanup(port, close_ok) == close_port(port, close_ok)

\* lines 358-404: run returns code with the port in state port; the finally clause
\* runs cleanup before the value is returned
Return(port, code, cause, during, close_ok) ==
    app' = [app EXCEPT !.stage = "returned", !.exit_code = code, !.cause = cause,
                       !.during = during, !.port = cleanup(port, close_ok),
                       !.close_raised = (port = "open" /\ ~close_ok)]

\* a stage of run that touches nothing but the application object
OnlyApp == UNCHANGED <<engineVars, condVars, execVars, filterVars, legacyVars, loginVars>>

\* lines 360-361, 78-118: parse_arguments; ok = FALSE: argparse raised SystemExit
ParseArguments(ok, close_ok) ==
    /\ app.stage = "parse_arguments"
    /\ IF ok THEN app' = [app EXCEPT !.stage = "initialize_components"]
       ELSE Return(app.port, 1, "failed_stage", app.stage, close_ok)
    /\ OnlyApp

\* lines 364-365, 120-167: initialize_components; ok = FALSE: a constructor raised
InitializeComponents(ok, close_ok) ==
    /\ app.stage = "initialize_components"
    /\ IF ok THEN app' = [app EXCEPT !.stage = "setup_serial_connection"]
       ELSE Return(app.port, 1, "failed_stage", app.stage, close_ok)
    /\ OnlyApp

\* The device: the texts it emits, each once the program has made `after` writes
Piece(after, text) == [after |-> after, text |-> text]

DeviceScript(device) ==
    IF device = "login"
    THEN <<Piece(0, <<"\r", "\n", "s", "w", "i", "t", "c", "h", "0", "1", " ", "l", "o", "g", "i", "n",
                ":", " ">>),
           Piece(4, <<"a", "d", "m", "i", "n", "\r", "\n", "P", "a", "s", "s", "w", "o", "r", "d", ":", " ">>),
           Piece(5, <<"\r", "\n", "s", "w", "i", "t", "c", "h", ">">>),
           Piece(6, <<"s", "h", "o", "w", " ", "d", "i", "a", "g", "\r", "\n", "d", "i", "a", "g", " ",
                "o", "k", "\r", "\n", "s", "w", "i", "t", "c", "h", ">">>)>>
    ELSE <<Piece(0, <<"\r", "\n", "s", "w", "i", "t", "c", "h", ">">>),
           Piece(4, <<"\r", "\n", "s", "w", "i", "t", "c", "h", ">">>),
           Piece(5, <<"s", "h", "o", "w", " ", "d", "i", "a", "g", "\r", "\n", "d", "i", "a", "g", " ",
                "o", "k", "\r", "\n", "s", "w", "i", "t", "c", "h", ">">>)>>

RECURSIVE PiecesText(_, _, _)
PiecesText(script, from, to) ==
    IF from > to THEN <<>> ELSE script[from].text \o PiecesText(script, from + 1, to)

\* how many pieces of the script the transport has delivered
Delivered(script, received) ==
    CHOOSE k \in 0..Len(script) : PiecesText(script, 1, k) = received

\* what one read can return: the next pieces the device has emitted so far
Readable(device, received, writes) ==
    LET script == DeviceScript(device)
        k == Delivered(script, received)
    IN  {PiecesText(script, k + 1, j) :
             j \in {i \in (k + 1)..Len(script) :
                        \A h \in (k + 1)..i : script[h].after <= writes}}

\* lines 368-369, 182-216: setup_serial_connection. port_named = FALSE: no port is
\* configured and none was selected; open_ok = FALSE: open_port failed; writes_done <
\* 3: a write of the initialization sequence raised; read_ok = FALSE:
\* read_initial_output raised; data: what the initial read found
SetupSerialConnection(port_named, open_ok, writes_done, read_ok, data, close_ok) ==
    LET opened == port_named /\ open_ok
        port == IF opened THEN "open" ELSE app.port
        sent == IF opened THEN SubSeq(initialization_sequence, 1, writes_done) ELSE <<>>
        read == IF opened /\ writes_done = 3 /\ read_ok THEN data ELSE <<>>
    IN  /\ app.stage = "setup_serial_connection"
        /\ written' = written \o sent
        /\ full_output_buffer' = full_output_buffer \o read
        /\ rx' = rx \o read
        /\ IF opened /\ writes_done = 3 /\ read_ok
           THEN app' = [app EXCEPT !.stage = "detect_device_state", !.port = port]
           ELSE Return(port, 1, "failed_stage", app.stage, close_ok)
        /\ UNCHANGED <<new_output, elapsed, w, wpc, ret, at_call, prev, ncalls,
                       pagination_enabled>>
        /\ UNCHANGED <<condVars, execVars, filterVars, legacyVars, loginVars>>

\* lines 372-374, 218-246: detect_device_state. detect_ok = FALSE: the detector raised,
\* detect_device_state returned None and run returns 1
DetectDeviceState(detect_ok, close_ok) ==
    LET found == detect_prompt_from_output(full_output_buffer)
        detected == IF Truthy(found) THEN found ELSE prompt_symbol
    IN  /\ app.stage = "detect_device_state"
        /\ IF detect_ok /\ Truthy(detected)
           THEN app' = [app EXCEPT !.stage = "check_pre_login_status", !.detected = detected]
           ELSE Return(app.port, 1, "failed_stage", app.stage, close_ok)
        /\ OnlyApp

\* lines 377, 248-274: check_pre_login_status
CheckPreLoginStatus ==
    /\ app.stage = "check_pre_login_status"
    /\ app' = [app EXCEPT !.stage = "execute_playbook",
                          !.skip_login = check_if_logged_in(full_output_buffer, app.detected)]
    /\ OnlyApp

\* lines 380, 317-327: execute_playbook of main.py up to the call of the executor;
\* content is the text of the playbook file, empty when there is no file
LoadPlaybook(content, close_ok) ==
    LET parsed == parse_playbook_content(content, app.success_message)
        loaded == [app EXCEPT !.success_message = parsed.success_message]
    IN  /\ app.stage = "execute_playbook"
        /\ IF parsed.commands = <<>>
           THEN app' = [loaded EXCEPT !.stage = "returned", !.exit_code = 1,
                                      !.cause = "failed_stage", !.during = app.stage,
                                      !.port = cleanup(app.port, close_ok),
                                      !.close_raised = (app.port = "open" /\ ~close_ok)]
           ELSE app' = [loaded EXCEPT !.stage = "playbook",
                                      !.commands = IF app.skip_login
                                                   THEN filter_login_steps(parsed.commands)
                                                   ELSE parsed.commands]
        /\ OnlyApp

\* lines 380-389: the executor has returned; run returns 0 after the success message,
\* 1 after a failed playbook
FinishRun(close_ok) ==
    /\ app.stage = "playbook"
    /\ pc \in {"Completed", "Aborted"}
    /\ IF pc = "Completed"
       THEN Return(app.port, 0, "success", app.stage, close_ok)
       ELSE Return(app.port, 1, "failed_stage", app.stage, close_ok)
    /\ OnlyApp

\* lines 397-402: an exception that no stage catches (the logging of lines 384-388
\* raises, parse_arguments raises something other than SystemExit)
UnexpectedException(close_ok) ==
    /\ \/ app.stage = "parse_arguments"
       \/ app.stage = "playbook" /\ pc = "Completed"
    /\ Return(app.port, 1, "exception", app.stage, close_ok)
    /\ OnlyApp

\* the step of the playbook the executor is at sends something
AtSendingStep ==
    /\ AtCommand
    /\ should_execute_command(condition_stack)
    /\ \/ commands[command_index + 1].command_type = "send_only"
       \/ /\ commands[command_index + 1].command_type = "wait_for_output"
          /\ commands[command_index + 1].command # <<>>

\* what run is doing when the user interrupts it
Doing ==
    IF app.stage # "playbook" THEN app.stage
    ELSE IF wpc = "polling" THEN "wait"
    ELSE IF AtSendingStep
    THEN (IF commands[command_index + 1].delay > 0 THEN "pause" ELSE "send")
    ELSE "playbook"

\* lines 391-396: KeyboardInterrupt raised anywhere under run; no handler below run
\* catches it (the handlers of the stages, of the executor and of the serial handler
\* are `except Exception`). during_write: the interrupt comes before the bytes of the
\* step are written; otherwise it comes in a sleep that follows the write (the 0.1 s
\* of send_command, the delay of a PAUSE).
KeyboardInterrupt(during_write, close_ok) ==
    /\ app.stage \notin {"idle", "returned"}
    /\ ~(app.stage = "playbook" /\ pc \in {"Completed", "Aborted"})
    /\ written' = IF Doing \in {"send", "pause"} /\ ~during_write
                  THEN Append(written, sent_bytes(commands[command_index + 1].command))
                  ELSE written
    /\ Return(app.port, 1, "interrupt", Doing, close_ok)
    /\ UNCHANGED <<full_output_buffer, new_output, elapsed, w, wpc, ret, rx, at_call, prev,
                   ncalls, pagination_enabled>>
    /\ UNCHANGED <<condVars, execVars, filterVars, legacyVars, loginVars>>

----------------------------------------------------------------------------
(* One run of SerialLinkUpdater.run against a scripted device *)

MaxCtrl == 3           \* control lines of a generated playbook

WaitLoginLine == <<"W", "A", "I", "T", " ", "l", "o", "g", "i", "n", ":">>
SendAdminLine == <<"S", "E", "N", "D", " ", "a", "d", "m", "i", "n">>
ShowDiagLine == <<"s", "h", "o", "w", " ", "d", "i", "a", "g">>
Pause1Line == <<"P", "A", "U", "S", "E", " ", "1">>
SuccessDoneLine ==
    <<"S", "U", "C", "C", "E", "S", "S", " ", "\"", "d", "o", "n", "e", "\"">>

\* the playbook of a login, one command, a pause and a success message
EndToEndLines ==
    <<WaitLoginLine, SendAdminLine,
      <<"W", "A", "I", "T", " ", "P", "a", "s", "s", "w", "o", "r", "d", ":">>,
      <<"S", "E", "N", "D", " ", "s", "e", "c", "r", "e", "t">>,
      <<"W", "A", "I", "T", " ", "P", "R", "O", "M", "P", "T">>,
      <<"S", "E", "N", "D", " ", "\"", "s", "h", "o", "w", " ", "d", "i", "a", "g", "\"">>,
      <<"W", "A", "I", "T", " ", "P", "R", "O", "M", "P", "T">>,
      Pause1Line, SuccessDoneLine>>

\* a bare newline, a login wait that is not the first step, a plain command, and a
\* block whose ELSE branch is skipped; a comment, a blank line and a bad pause
MixedLines ==
    <<<<"#", " ", "m", "i", "x", "e", "d">>,
      <<"S", "E", "N", "D">>, <<>>,
      <<" ", " ", "W", "A", "I", "T", " ", "L", "o", "g", "i", "n", ":">>,
      ShowDiagLine,
      <<"P", "A", "U", "S", "E", " ", "s", "o", "o", "n">>,
      <<"I", "F", "_", "C", "O", "N", "T", "A", "I", "N", "S", " ", "P", "a", "s", "s",
        "w", "o", "r", "d">>,
      <<"P", "A", "U", "S", "E", " ", "0", ".", "5">>,
      <<"e", "l", "s", "e">>,
      SendAdminLine,
      <<"E", "N", "D", "I", "F">>>>

\* a wait, not the first step, for a text that the initial read left in the buffer
StaleLines ==
    <<<<"S", "E", "N", "D">>,
      <<"W", "A", "I", "T", " ", "s", "w", "i", "t", "c", "h", "0", "1">>>>

ControlLines ==
    {<<"I", "F", "_", "C", "O", "N", "T", "A", "I", "N", "S", " ", "l", "o", "g", "i",
       "n">>,
     <<"I", "F", "_", "C", "O", "N", "T", "A", "I", "N", "S", " ", "z", "z", "z">>,
     <<"E", "L", "I", "F", "_", "C", "O", "N", "T", "A", "I", "N", "S", " ", "l", "o",
       "g", "i", "n">>,
     <<"e", "l", "s", "e">>,
     <<"E", "N", "D", "I", "F">>}

\* the contents the playbook file can have: none, the three playbooks above, and a
\* login wait followed by every sequence of up to MaxCtrl control lines
PlaybookContents ==
    {<<>>, join_lines(EndToEndLines) \o <<"\n">>, join_lines(MixedLines),
     join_lines(StaleLines)}
      \cup {join_lines(<<WaitLoginLine>> \o control) :
                control \in UNION {[1..n -> ControlLines] : n \in 0..MaxCtrl}}

InitRun ==
    /\ EngineIdle
    /\ pagination_enabled = TRUE
    /\ CondIdle
    /\ commands = <<>> /\ pc = "Idle" /\ command_index = 0 /\ completed_commands = 0
    /\ total_commands = 0 /\ success = TRUE /\ obs = NoObs
    /\ detected_prompt = None
    /\ prompt_symbol = <<">">>
    /\ FilterIdle
    /\ LoginIdle
    /\ LegacyIdle
    /\ \E device \in {"login", "shell"} :
           app = [NoApp EXCEPT !.stage = "parse_arguments", !.device = device]

\* the executor, called by execute_playbook of main.py (lines 329-331)
RunProgramStep ==
    \/ pc = "Idle" /\ StartPlaybook(app.commands, app.detected, prompt_symbol)
    \/ SkipStep
    \/ ExecConditional
    \/ \E ok \in BOOLEAN : ExecSend(ok)
    \/ ExecWaitSendFails
    \/ ExecWait
    \/ FinishWaitStep
    \/ WaitTimeout
    \/ ReturnFromLoop

NextRun ==
    \/ \E ok, close_ok \in BOOLEAN : ParseArguments(ok, close_ok)
    \/ \E ok, close_ok \in BOOLEAN : InitializeComponents(ok, close_ok)
    \/ /\ app.stage = "setup_serial_connection"
       /\ \E port_named, open_ok, read_ok, close_ok \in BOOLEAN, writes_done \in 0..3 :
            \E data \in {<<>>} \cup Readable(app.device, <<>>, 3) :
                SetupSerialConnection(port_named, open_ok, writes_done, read_ok, data,
                                      close_ok)
    \/ \E detect_ok, close_ok \in BOOLEAN : DetectDeviceState(detect_ok, close_ok)
    \/ CheckPreLoginStatus
    \/ /\ app.stage = "execute_playbook"
       /\ \E content \in PlaybookContents, close_ok \in BOOLEAN :
              LoadPlaybook(content, close_ok)
    \/ app.stage = "playbook" /\ RunProgramStep
    \/ /\ app.stage = "playbook" /\ wpc = "polling"
       /\ \E chunk \in Readable(app.device, rx, Len(written)) : PollData(chunk, TRUE)
    \/ app.stage = "playbook" /\ PollEmpty
    \/ app.stage = "playbook" /\ PollSerialException
    \/ app.stage = "playbook" /\ PollOtherException
    \/ app.stage = "playbook" /\ Tick
    \/ \E close_ok \in BOOLEAN : FinishRun(close_ok)
    \/ \E close_ok \in BOOLEAN : UnexpectedException(close_ok)
    \/ \E during_write, close_ok \in BOOLEAN : KeyboardInterrupt(during_write, close_ok)

SpecRun == InitRun /\ [][NextRun]_vars

----------------------------------------------------------------------------
(* Claims about SerialLinkUpdater.run, checked under SpecRun *)

RunReturned == app.stage = "returned"

\* C21: however run ends - success, a failed stage, an unexpected exception, a
\* KeyboardInterrupt at any stage, in particular during a send, a wait or a pause of
\* the playbook - it returns: 0 only after a playbook that completed, 1 in every other
\* case, the interrupt included; and a port that was opened is closed when run has
\* returned, unless ser.close() itself raised.
C21_EveryExitClosesPort ==
    /\ RunReturned =>
          /\ app.exit_code = (IF app.cause = "success" THEN 0 ELSE 1)
          /\ app.cause \in {"success", "failed_stage", "exception", "interrupt"}
          /\ app.cause = "success" => (pc = "Completed" /\ success)
          /\ ~app.close_raised => app.port \in {"none", "closed"}
          /\ app.port = "none" =>
                 app.during \in {"parse_arguments", "initialize_components",
                                 "setup_serial_connection"}
    /\ ~RunReturned => app.exit_code = -1

\* C21 witness: the user interrupted the pause that ends the playbook, after its
\* newline was written; run returned 1 and the port is closed
C21_Witness ==
    /\ RunReturned
    /\ app.cause = "interrupt" /\ app.during = "pause"
    /\ app.exit_code = 1
    /\ app.port = "closed"
    /\ completed_commands = 7
    /\ written[Len(written)] = <<"\n">>

\* what the playbook file of the end-to-end scenario is parsed into
EndToEndParsed == parse_playbook_content(join_lines(EndToEndLines) \o <<"\n">>, None)

\* the executor runs the end-to-end playbook against the device that asks for a login
EndToEndRun ==
    /\ app.device = "login"
    /\ app.stage \in {"playbook", "returned"}
    /\ pc # "Idle"
    /\ commands = EndToEndParsed.commands

\* what the playbook has written after the initialization sequence
PlaybookWrites == SubSeq(written, Len(initialization_sequence) + 1, Len(written))

\* the end-to-end scenario but for the command count: the playbook is parsed into the
\* steps before SUCCESS and the message; a wait of the run fails only when the
\* transport fails or delivers nothing while it polls; the completed run is a success
\* that wrote the three payloads and the newline of the pause, and run returns 0
EndToEndCompletes ==
    EndToEndRun =>
       /\ app.success_message = <<"d", "o", "n", "e">>
       /\ \A i \in 1..Len(commands) : commands[i].command_type \in {"send_only", "wait_for_output"}
       /\ (wpc = "returned" /\ ~ret.found)
             => (ret.via = "serial_error" \/ Len(rx) = at_call.rx_len)
       /\ pc = "Completed" =>
             /\ success
             /\ completed_commands = total_commands
             /\ PlaybookWrites = <<sent_bytes(<<"a", "d", "m", "i", "n">>),
                                   sent_bytes(<<"s", "e", "c", "r", "e", "t">>),
                                   sent_bytes(<<"s", "h", "o", "w", " ", "d", "i", "a", "g">>),
                                   sent_bytes(<<>>)>>
       /\ (RunReturned /\ pc = "Completed" /\ app.cause # "exception") => app.exit_code = 0

\* C22 as stated: the end-to-end playbook completes with success, the message 'done'
\* and a command count of 6
C22_EndToEndCountSix ==
    /\ EndToEndCompletes
    /\ (EndToEndRun /\ pc = "Completed") => completed_commands = 6

\* C22 amended: the end-to-end playbook completes with success, the message 'done' and
\* a command count of 8 - every line but SUCCESS is a step, the PAUSE included
C22_EndToEndCountEight ==
    /\ EndToEndCompletes
    /\ EndToEndRun => total_commands = 8
    /\ (EndToEndRun /\ pc = "Completed") => completed_commands = 8

\* C22 witness: run has returned 0 after the end-to-end playbook, with the message
C22_Witness ==
    /\ EndToEndRun
    /\ RunReturned /\ app.exit_code = 0
    /\ pc = "Completed" /\ success
    /\ app.success_message = <<"d", "o", "n", "e">>
    /\ Len(PlaybookWrites) = 4

\* the last step of the run was a wait step that found its text
AfterSuccessfulWait ==
    /\ app.stage = "playbook"
    /\ obs.kind = "wait" /\ ~Failed
    /\ wpc = "idle" /\ ret.found

\* C25: after a wait step that found its text, the text conditions are evaluated
\* against is exactly what that wait captured, the matched text included, with
\* nothing removed.
C25_ConditionSeesCapturedOutput ==
    AfterSuccessfulWait => last_command_output = ret.captured_output

\* the executor is in a wait step: wait_for_output was called and has not yet
\* returned to the step, or has just returned
InWaitStep == app.stage = "playbook" /\ pc = "Waiting"

\* text equals one of the two login prompts, ignoring case
IsLoginText(text) ==
    \E prompt \in {<<"l", "o", "g", "i", "n", ":">>,
                   <<"u", "s", "e", "r", "n", "a", "m", "e", ":">>} :
        /\ Len(text) = Len(prompt)
        /\ \A i \in 1..Len(prompt) : LowerChar(text[i]) = prompt[i]

\* what the transport delivered since the wait in progress was called
ReadDuringWait == Drop(rx, at_call.rx_len)

StaleTextNotExamined ==
    /\ InWaitStep
    /\ obs.steps = 1
    /\ Contains(at_call.buffer, w.actual)
    /\ wpc = "returned" /\ ret.via = "timeout"

\* a control step that has no block to act on: ELIF or ELSE with no frame or with an
\* ELSE frame on top, ENDIF with no frame
Malformed(stack, command) ==
    \/ /\ command.command_type \in {"ELIF", "ELSE"}
       /\ (stack = <<>> \/ Top(stack).condition_type = "else")
    \/ command.command_type = "ENDIF" /\ stack = <<>>

\* IFs minus ENDIFs that found a frame, over the first n steps of cmds
RECURSIVE Depth(_, _)
Depth(cmds, n) ==
    IF n = 0 THEN 0
    ELSE LET d == Depth(cmds, n - 1)
         IN  CASE cmds[n].command_type = "IF" -> d + 1
               [] cmds[n].command_type = "ENDIF" /\ d > 0 -> d - 1
               [] OTHER -> d

\* the executor handles the control step it is at
HandlesControlStep ==
    /\ AtCommand
    /\ commands[command_index + 1].command_type \in ControlTypes
    /\ obs'.steps = obs.steps + 1

\* C28: a malformed ELIF, ELSE or ENDIF leaves the condition stack and the last output
\* as they are, and the executor counts it, like every control step, as a successful
\* step and goes on; the depth of the stack is the number of IFs processed minus the
\* number of ENDIFs processed on a non-empty stack, and so never negative.
C28_MalformedControlStepsAreCounted ==
    /\ [](pc # "Idle" => Len(condition_stack) = Depth(commands, command_index))
    /\ [][HandlesControlStep =>
            /\ Malformed(condition_stack, commands[command_index + 1])
                  => UNCHANGED <<condition_stack, last_command_output>>
            /\ UNCHANGED <<last_command_output, success, written, rx>>
            /\ completed_commands' = completed_commands + 1
            /\ command_index' = command_index + 1
            /\ pc' = "Running" /\ ~Failed']_vars

\* C28 witness: an ELSE that followed the ELSE of its block was counted as the third
\* step of a run that goes on, with the stack as it was
C28_Witness ==
    /\ obs.kind = "ELSE"
    /\ obs.stack_before # <<>>
    /\ Top(obs.stack_before).condition_type = "else"
    /\ condition_stack = obs.stack_before
    /\ pc = "Running" /\ success
    /\ completed_commands = obs.steps

\* a stray ENDIF and a stray ELIF were counted with the stack still empty
StrayControlStepsCounted ==
    /\ pc = "Completed"
    /\ Len(commands) = 3
    /\ commands[2].command_type = "ENDIF" /\ commands[3].command_type = "ELIF"
    /\ condition_stack = <<>>
    /\ completed_commands = 3

\* the executor is at a PAUSE step: a send_only step with a delay and no payload
AtPauseStep ==
    /\ app.stage = "playbook"
    /\ AtCommand
    /\ commands[command_index + 1].command_type = "send_only"
    /\ commands[command_index + 1].command = <<>>
    /\ commands[command_index + 1].delay > 0

\* C37: a PAUSE step only delays: when the executor handles it, executed or skipped,
\* nothing is written to the transport.
C37_PauseWritesNothing ==
    [][(AtPauseStep /\ obs'.steps = obs.steps + 1) => written' = written]_vars

\* the pause that ends the end-to-end playbook was executed and a bare newline is the
\* last thing written, after the payload of the command before it
PauseWroteNewline ==
    /\ EndToEndRun
    /\ obs.kind = "send" /\ obs.command.delay > 0 /\ ~Failed
    /\ Len(PlaybookWrites) = 4
    /\ PlaybookWrites[4] = <<"\n">>

----------------------------------------------------------------------------
(* Claims about the buffer between the steps of a run, checked under Spec and SpecRun *)

\* the executor is in a wait step that first sent its command
InCommandWaitStep ==
    /\ pc = "Waiting"
    /\ commands[command_index + 1].command # <<>>

\* C38: a wait step that first sends a command is satisfied only by bytes received
\* after the command was written, also when it is the first step: it never returns on
\* what the buffer held before the send, and what it captures starts after that.
C38_CommandWaitSeesOnlyNewBytes ==
    (InCommandWaitStep /\ wpc = "returned" /\ ret.found)
        => /\ ret.via = "poll"
           /\ ret.cap_start_rx >= at_call.rx_len

\* the first step of the run sent its command and returned at once on the prompt the
\* initial read had left in the buffer, with nothing read since
StalePromptEndsCommandWait ==
    /\ InCommandWaitStep
    /\ obs.steps = 0
    /\ wpc = "returned" /\ ret.found /\ ret.via = "existing"
    /\ written = <<sent_bytes(commands[1].command)>>
    /\ Len(rx) = at_call.rx_len
    /\ Contains(at_call.buffer, w.actual)

----------------------------------------------------------------------------
(* Claims about nested blocks, checked under SpecCond *)

\* the branch a frame stands for is taken: its steps execute when it is the top frame
BranchTaken(frame) == should_execute_command(<<frame>>)

\* C33: a non-control step inside nested blocks executes only if the active branch of
\* every enclosing block is taken; while an outer branch is skipped, the steps of an
\* inner block are skipped too, whatever the inner condition evaluates to.
C33_NestedStepNeedsEveryBranch ==
    obs.kind = "executed" => \A i \in 1..Len(condition_stack) : BranchTaken(condition_stack[i])

\* a step executed inside an inner IF whose condition holds, within an outer IF branch
\* that is skipped
InnerStepRunsInSkippedBranch ==
    /\ obs.kind = "executed"
    /\ Len(condition_stack) = 2
    /\ condition_stack[1].condition_type = "if" /\ ~condition_stack[1].condition_met
    /\ condition_stack[2].condition_type = "if" /\ condition_stack[2].condition_met

----------------------------------------------------------------------------
(* Claims about consecutive wait steps, checked under Spec *)

\* the executor is in a wait step that follows a wait step (the step handled just
\* before it) which matched its text in data it read
AfterPolledMatch ==
    /\ pc = "Waiting"
    /\ obs.kind = "wait" /\ ~Failed
    /\ prev.called /\ prev.ret.found /\ prev.ret.via = "poll"

\* what the transport delivered after the match of the earlier wait step and before
\* the later one was called: it arrived in the read that brought the match
ReceivedAfterMatch == SubSeq(rx, prev.ret.match_end_rx + 1, at_call.rx_len)

\* C36: no awaited text is lost between consecutive wait steps: a wait step that
\* follows a wait step, and whose text was received during that step after its match,
\* does not time out.
C36_NoTextLostBetweenWaits ==
    (AfterPolledMatch /\ wpc = "returned" /\ Contains(ReceivedAfterMatch, w.actual))
        => ret.via # "timeout"

\* the second of two waits for 'a' timed out: one read during the first wait brought
\* 'aa', and nothing was read after that
LaterWaitTimedOut ==
    /\ AfterPolledMatch
    /\ obs.steps = 1
    /\ wpc = "returned" /\ ret.via = "timeout"
    /\ rx = <<"a", "a">> /\ prev.ret.match_end_rx = 1
    /\ ReceivedAfterMatch = <<"a">> /\ w.actual = <<"a">>

----------------------------------------------------------------------------
(* Claims about pager prompts met during a wait, checked under SpecWait, where the *)
(* pager responses are the only writes.                                           *)

\* the 0-based indexes of the pager prompts in a text
PagerPrompts(text) == {i \in 0..(Len(text) - 1) : text[i + 1] = "~"}

\* the first wait of the session is in progress or has returned, and no other was called
InFirstWait == ncalls = 1 /\ wpc \in {"polling", "returned"}

\* C35: each pager prompt received from the device is answered at most once during a
\* wait: the responses written never outnumber the pager prompts received.
C35_OneAnswerPerPagerPrompt ==
    InFirstWait => Len(written) <= Cardinality(PagerPrompts(rx))

\* one pager prompt was received, then one more character, and two responses were
\* written
PagerPromptAnsweredTwice ==
    /\ InFirstWait
    /\ rx = <<"~", "a">>
    /\ written = <<pagination_response, pagination_response>>

\* during the first wait a pager prompt was read and answered, and the awaited text
\* was read after that prompt
AwaitedTextFollowedPager ==
    /\ InFirstWait
    /\ written # <<>>
    /\ \E i \in PagerPrompts(ReadDuringWait) : Contains(Drop(ReadDuringWait, i + 1), w.actual)

\* C34: when a pager prompt was answered during a wait and the awaited text arrived
\* after it before the timeout, the wait returns found = true, however few characters
\* follow the pager prompt and however they are split into reads: unless the transport
\* fails, the wait does not end with found = false.
C34_FoundAfterPager ==
    (AwaitedTextFollowedPager /\ wpc = "returned" /\ ret.via # "serial_error") => ret.found

\* the wait for 'a' timed out although 'a' was read right after the pager prompt
\* that was answered
TimedOutAfterPager ==
    /\ AwaitedTextFollowedPager
    /\ rx = <<"~", "a">> /\ at_call.rx_len = 0
    /\ w.actual = <<"a">>
    /\ wpc = "returned" /\ ret.via = "timeout" /\ ~ret.found

----------------------------------------------------------------------------
(* Claims about filtering a filtered playbook, checked under SpecFilter *)

\* C39: filter_login_steps is idempotent: the list the loop has produced is the value
\* of filter_login_steps on the playbook, and filtering that list again returns it
\* unchanged.
C39_FilterIdempotent ==
    FilterDone =>
       /\ filtered_commands = filter_login_steps(playbook)
       /\ filter_login_steps(filtered_commands) = filtered_commands

\* C39 witness: the login step before the first command was dropped, and what is
\* left ends with a step that is dropped when it comes before a command
C39_Witness ==
    /\ FilterDone
    /\ playbook = <<Send(Username), Regular(ShowVersion), Send(Username)>>
    /\ Len(filtered_commands) = Len(playbook) - 1
    /\ is_login_step(filtered_commands[Len(filtered_commands)], TRUE)

----------------------------------------------------------------------------
(* serial_communicator.py: execute_playbook, the legacy executor.  Its nested *)
(* wait_for_output polls like SerialHandler.wait_for_output; the test of the  *)
(* buffer it finds, and a pager response that cannot be written, differ.      *)

\* lines 968-1005: a parsed step is the pair (step_type, value)
Step(step_type, value) == [value |-> value, step_type |-> step_type]

legacy_if_types ==
    {"if_contains", "if_contains_i", "if_not_contains", "if_not_contains_i", "if_regex"}
legacy_branch_types ==
    {"elif_contains", "elif_contains_i", "elif_not_contains", "elif_not_contains_i",
     "elif_regex", "else"}

\* lines 594-603 and 654-662: the 0-based index of the ENDIF that brings depth to 0,
\* scanning from index i; -1 when there is none
RECURSIVE matching_endif(_, _, _)
matching_endif(steps, i, depth) ==
    IF i >= Len(steps) THEN -1
    ELSE IF steps[i + 1].step_type \in legacy_if_types
         THEN matching_endif(steps, i + 1, depth + 1)
    ELSE IF steps[i + 1].step_type = "endif"
         THEN (IF depth = 1 THEN i ELSE matching_endif(steps, i + 1, depth - 1))
    ELSE matching_endif(steps, i + 1, depth)

\* lines 609-634: the condition of an IF step against the last output
legacy_condition_met(step_type, value, output) ==
    CASE step_type = "if_contains" -> Contains(output, value)
      [] step_type = "if_contains_i" -> Contains(Lower(output), Lower(value))
      [] step_type = "if_not_contains" -> ~Contains(output, value)
      [] step_type = "if_not_contains_i" -> ~Contains(Lower(output), Lower(value))
      [] step_type = "if_regex" ->
            IF value = BadRegex THEN FALSE ELSE regex_search(Lower(value), Lower(output))
      [] OTHER -> FALSE

\* lines 537-558: is_login_step of the inline filter at the end of one iteration
legacy_is_login_step(step, in_login) ==
    /\ in_login
    /\ \/ /\ step.step_type = "wait"
          /\ LET wait_value_lower == strip(Lower(step.value))
             IN  \/ \E keyword \in login_keywords : Contains(wait_value_lower, keyword)
                 \/ wait_value_lower \in prompt_tokens
       \/ /\ step.step_type = "send"
          /\ LET send_value_lower == strip(Lower(step.value))
             IN  \/ \E keyword \in login_keywords : Contains(send_value_lower, keyword)
                 \/ send_value_lower \in common_login_cmds
                 \/ (Len(strip(step.value)) < ShortPayload /\ ~has_marker(step.value))

\* lines 555-562: in_login_sequence of the inline filter at the end of one iteration
legacy_in_login_after(step, in_login) ==
    /\ in_login
    /\ ~(step.step_type = "send" /\ has_marker(step.value))
    /\ step.step_type # "command"

\* lines 530-569: the inline filter of the steps
RECURSIVE legacy_filter_walk(_, _, _, _)
legacy_filter_walk(steps, i, in_login, out) ==
    IF i > Len(steps) THEN out
    ELSE legacy_filter_walk(steps, i + 1, legacy_in_login_after(steps[i], in_login),
                            IF legacy_is_login_step(steps[i], in_login)
                            THEN out ELSE Append(out, steps[i]))

filtered_playbook_steps(steps) == legacy_filter_walk(steps, 1, TRUE, <<>>)

\* lines 488-498: the answer to the bare newline shows a prompt
prompt_in_first_response(response, detected, symbol) ==
    /\ response # <<>>
    /\ \/ Truthy(detected) /\ Contains(response, detected)
       \/ Contains(response, symbol)
       \/ \E prompt \in {<<"#">>, <<">">>, <<"$">>, <<"(", "c", "o", "n", "f", "i", "g", ")">>} :
              Contains(response, prompt)

\* lines 504-512: the answer to '?' shows a help text or a prompt
prompt_in_second_response(response) ==
    /\ response # <<>>
    /\ \/ \E keyword \in {<<"c", "o", "m", "m", "a", "n", "d", "s">>, <<"h", "e", "l", "p">>,
                         <<"a", "v", "a", "i", "l", "a", "b", "l", "e">>,
                         <<"s", "y", "n", "t", "a", "x">>} :
              Contains(<<>> \o Lower(response), keyword)
       \/ \E prompt \in {<<"#">>, <<">">>, <<"$">>} : Contains(response, prompt)

\* execute_playbook returns value; the finally clause closes the port
LegacyReturn(value) == legacy' = [legacy EXCEPT !.pc = "returned", !.result = value]

\* lines 119-465: the port is opened, the initialization sequence is written, the
\* initial output is read and the prompt is detected from it.
\* open_ok = FALSE: serial.Serial raised; init_ok = FALSE: the first write raised
LegacySetup(open_ok, init_ok, data) ==
    /\ legacy.pc = "setup"
    /\ IF open_ok /\ init_ok
       THEN /\ written' = initialization_sequence
            /\ full_output_buffer' = data
            /\ rx' = data
            /\ detected_prompt' = detect_prompt_from_output(data)
            /\ legacy' = [legacy EXCEPT !.pc = "pre_login_check"]
       ELSE /\ data = <<>>
            /\ LegacyReturn("false")
            /\ UNCHANGED <<written, full_output_buffer, rx, detected_prompt>>
    /\ UNCHANGED <<new_output, elapsed, w, wpc, ret, at_call, prev, ncalls,
                   pagination_enabled>>
    /\ UNCHANGED <<commands, pc, command_index, completed_commands, total_commands, success,
                   prompt_symbol, obs>>
    /\ UNCHANGED <<condVars, filterVars, loginVars, appVars>>

\* lines 477-572: check_if_logged_in writes a newline, and '?' when the answer shows
\* no prompt; when the device is logged in the login steps are filtered out
LegacyPreLoginCheck(response, second_response) ==
    LET first == prompt_in_first_response(response, detected_prompt, prompt_symbol)
        already_logged_in == first \/ prompt_in_second_response(second_response)
    IN  /\ legacy.pc = "pre_login_check"
        /\ first => second_response = <<>>
        /\ written' = written \o (IF first THEN <<<<"\n">>>> ELSE <<<<"\n">>, <<"?", "\n">>>>)
        /\ full_output_buffer' = full_output_buffer \o response \o second_response
        /\ rx' = rx \o response \o second_response
        /\ legacy' = [legacy EXCEPT
                        !.pc = "running",
                        !.login_phase = ~already_logged_in,
                        !.playbook_steps = IF already_logged_in
                                           THEN filtered_playbook_steps(legacy.playbook_steps)
                                           ELSE legacy.playbook_steps,
                        !.prompt_at_start = detected_prompt]
        /\ last_command_output' = <<>>
        /\ UNCHANGED condition_stack
        /\ UNCHANGED <<new_output, elapsed, w, wpc, ret, at_call, prev, ncalls,
                       pagination_enabled>>
        /\ UNCHANGED <<execVars, filterVars, loginVars, appVars>>

\* line 577: the loop is at a step
LegacyAtStep ==
    /\ legacy.pc = "running"
    /\ legacy.step_idx < Len(legacy.playbook_steps)

LegacyStepNow == legacy.playbook_steps[legacy.step_idx + 1]

\* a step of the loop that touches nothing but the locals of execute_playbook
OnlyLegacy == UNCHANGED <<engineVars, condVars, execVars, filterVars, loginVars, appVars>>

\* lines 586-648: an IF step goes on with the next step when its condition holds and
\* with the step after its ENDIF when it does not
LegacyIf ==
    LET endif_idx == matching_endif(legacy.playbook_steps, legacy.step_idx + 1, 1)
        condition_met == legacy_condition_met(LegacyStepNow.step_type, LegacyStepNow.value,
                                              last_command_output)
    IN  /\ LegacyAtStep
        /\ LegacyStepNow.step_type \in legacy_if_types
        /\ IF endif_idx = -1 THEN LegacyReturn("false")
           ELSE legacy' = [legacy EXCEPT !.step_idx = IF condition_met THEN legacy.step_idx + 1
                                                     ELSE endif_idx + 1]
        /\ OnlyLegacy

\* lines 651-672: an ELIF or ELSE met in the flow ends the branch that was running: the
\* loop goes on at the matching ENDIF
LegacyElifElse ==
    LET endif_idx == matching_endif(legacy.playbook_steps, legacy.step_idx + 1, 1)
    IN  /\ LegacyAtStep
        /\ LegacyStepNow.step_type \in legacy_branch_types
        /\ IF endif_idx = -1 THEN LegacyReturn("false")
           ELSE legacy' = [legacy EXCEPT !.step_idx = endif_idx]
        /\ OnlyLegacy

\* lines 652-654, 846: an ENDIF is stepped over
LegacyEndif ==
    /\ LegacyAtStep
    /\ LegacyStepNow.step_type = "endif"
    /\ legacy' = [legacy EXCEPT !.step_idx = legacy.step_idx + 1]
    /\ OnlyLegacy

\* lines 675-687: a send step; write_ok = FALSE: ser.write raised, which is logged
LegacySend(write_ok) ==
    /\ LegacyAtStep
    /\ LegacyStepNow.step_type \in {"command", "send"}
    /\ written' = IF write_ok THEN Append(written, LegacyStepNow.value \o <<"\n">>)
                  ELSE written
    /\ legacy' = [legacy EXCEPT !.step_idx = legacy.step_idx + 1,
                                !.login_phase = FALSE,
                                !.last_command_sent = LegacyStepNow.value,
                                !.sent = Append(legacy.sent, legacy.step_idx)]
    /\ UNCHANGED <<full_output_buffer, new_output, elapsed, w, wpc, ret, rx, at_call, prev,
                   ncalls, pagination_enabled>>
    /\ UNCHANGED <<condVars, execVars, filterVars, loginVars, appVars>>

\* lines 689-697: a pause step sleeps
LegacyPause ==
    /\ LegacyAtStep
    /\ LegacyStepNow.step_type = "pause"
    /\ legacy' = [legacy EXCEPT !.step_idx = legacy.step_idx + 1]
    /\ OnlyLegacy

\* lines 262-323: the nested wait_for_output from the call to the first test of the
\* loop condition; the buffer it finds is searched for the text as it is written
LegacyEnterWait(expected_text, wait_timeout, check_existing_buffer, handle_pagination) ==
    LET actual == actual_expected_text(expected_text, detected_prompt, prompt_symbol)
        e == match_index(full_output_buffer, actual, detected_prompt) + Len(actual)
    IN  /\ w' = [expected_text |-> expected_text, wait_timeout |-> wait_timeout,
                 detected_prompt |-> detected_prompt, prompt_symbol |-> prompt_symbol,
                 check_existing_buffer |-> check_existing_buffer,
                 handle_pagination |-> (handle_pagination /\ pagination_enabled),
                 actual |-> actual]
        /\ at_call' = [buffer |-> full_output_buffer, rx_len |-> Len(rx)]
        /\ new_output' = <<>>
        /\ elapsed' = 0
        /\ IF check_existing_buffer /\ Contains(full_output_buffer, actual)
           THEN /\ ret' = [NoRet EXCEPT !.found = TRUE,
                                        !.captured_output = Take(full_output_buffer, e),
                                        !.via = "existing",
                                        !.cap_start_rx = Len(rx) - Len(full_output_buffer),
                                        !.match_end_rx = Len(rx) - Len(full_output_buffer) + e]
                /\ full_output_buffer' = Drop(full_output_buffer, e)
                /\ wpc' = "returned"
           ELSE /\ ret' = NoRet
                /\ full_output_buffer' = full_output_buffer
                /\ wpc' = "polling"

\* lines 699-724: a wait step calls wait_for_output
LegacyWait ==
    LET value == LegacyStepNow.value
        check_existing ==
            legacy.login_phase
              \/ value \in {<<"l", "o", "g", "i", "n", ":">>,
                            <<"P", "a", "s", "s", "w", "o", "r", "d", ":">>,
                            <<"p", "a", "s", "s", "w", "o", "r", "d", ":">>}
        enable_pagination == ~legacy.login_phase /\ (value = <<">">> \/ Upper(value) = PROMPT)
    IN  /\ LegacyAtStep
        /\ LegacyStepNow.step_type = "wait"
        /\ wpc = "idle"
        /\ LegacyEnterWait(value, MaxTimeout, check_existing, enable_pagination)
        /\ legacy' = [legacy EXCEPT !.pc = "waiting"]
        /\ UNCHANGED <<rx, written, prev, ncalls, pagination_enabled>>
        /\ UNCHANGED <<condVars, execVars, filterVars, loginVars, appVars>>

\* lines 372-377: the pager response cannot be written (SerialException or OSError):
\* the wait returns false with what it has read
LegacyPagerWriteFails(chunk) ==
    /\ legacy.pc = "waiting"
    /\ wpc = "polling"
    /\ loop_guard(elapsed, w.wait_timeout)
    /\ w.handle_pagination
    /\ pagination_match(full_output_buffer \o chunk)
    /\ rx' = rx \o chunk
    /\ new_output' = new_output \o chunk
    /\ full_output_buffer' = full_output_buffer \o chunk
    /\ ret' = [NoRet EXCEPT !.captured_output = new_output \o chunk, !.via = "serial_error"]
    /\ wpc' = "returned"
    /\ UNCHANGED <<elapsed, w, written, at_call, prev, ncalls, pagination_enabled>>
    /\ UNCHANGED <<condVars, execVars, filterVars, legacyVars, loginVars, appVars>>

\* lines 718-735, 838-846: wait_for_output has returned to the wait step; after a
\* wait for the command prompt the prompt is detected again from what was captured
LegacyWaitReturned ==
    LET value == LegacyStepNow.value
        captured_output == ret.captured_output
        is_command_prompt ==
            \/ value = <<">">>
            \/ Upper(value) = PROMPT
            \/ (Truthy(detected_prompt) /\ value = detected_prompt)
        new_detection == detect_prompt_from_output(captured_output)
    IN  /\ legacy.pc = "waiting"
        /\ wpc = "returned"
        /\ wpc' = "idle"
        /\ IF ~ret.found
           THEN /\ LegacyReturn("false")
                /\ UNCHANGED <<detected_prompt, last_command_output>>
           ELSE /\ detected_prompt' =
                       IF /\ is_command_prompt
                          /\ (~Truthy(detected_prompt) \/ Upper(value) = PROMPT)
                          /\ Truthy(new_detection)
                          /\ new_detection # detected_prompt
                       THEN new_detection ELSE detected_prompt
                /\ last_command_output' =
                       IF strip(captured_output) # <<>> THEN captured_output
                       ELSE last_command_output
                /\ legacy' = [legacy EXCEPT
                                !.pc = "running",
                                !.step_idx = legacy.step_idx + 1,
                                !.login_phase = legacy.login_phase /\ ~is_command_prompt]
        /\ UNCHANGED <<full_output_buffer, new_output, elapsed, w, ret, rx, written, at_call,
                       prev, ncalls, pagination_enabled>>
        /\ UNCHANGED <<commands, pc, command_index, completed_commands, total_commands,
                       success, prompt_symbol, obs>>
        /\ UNCHANGED condition_stack
        /\ UNCHANGED <<filterVars, loginVars, appVars>>

\* lines 577, 853-856: no step is left; execute_playbook returns true
LegacyFinished ==
    /\ legacy.pc = "running"
    /\ legacy.step_idx >= Len(legacy.playbook_steps)
    /\ LegacyReturn("true")
    /\ OnlyLegacy

----------------------------------------------------------------------------
(* The legacy executor on small step lists *)

\* the length of the step lists made of every kind of step
MaxLegacySteps == 2

LegacyStepKinds ==
    {Step("wait", PROMPT), Step("wait", <<"a">>), Step("send", <<"a">>), Step("pause", <<"1">>),
     Step("if_contains", <<"a">>), Step("if_not_contains", <<"a">>),
     Step("elif_contains", <<">">>), Step("else", <<>>), Step("endif", <<>>)}

LegacyConditions ==
    {Step("if_contains", <<"a">>), Step("if_not_contains", <<"a">>), Step("if_contains", <<">">>)}

as_elif(step) == Step("el" \o step.step_type, step.value)

\* IF c / SEND / [ELIF c' / SEND] / [ELSE / SEND] / ENDIF
LegacyBlocks ==
    {<<c, Step("send", <<"a">>)>> \o elif_part \o else_part \o <<Step("endif", <<>>)>> :
        c \in LegacyConditions,
        elif_part \in {<<>>} \cup {<<as_elif(d), Step("send", <<"a">>)>> : d \in LegacyConditions},
        else_part \in {<<>>, <<Step("else", <<>>), Step("send", <<"a">>)>>}}

\* every short step list, and a wait for a text followed by one block
LegacyPlaybooks ==
    UNION {[1..n -> LegacyStepKinds] : n \in 0..MaxLegacySteps}
      \cup {<<Step("wait", <<"a">>)>> \o block : block \in LegacyBlocks}

InitLegacy ==
    /\ EngineIdle
    /\ pagination_enabled = TRUE
    /\ CondIdle
    /\ commands = <<>> /\ pc = "Idle" /\ command_index = 0 /\ completed_commands = 0
    /\ total_commands = 0 /\ success = TRUE /\ obs = NoObs
    /\ detected_prompt = None
    /\ prompt_symbol = <<">">>
    /\ FilterIdle /\ LoginIdle /\ AppIdle
    /\ \E steps \in LegacyPlaybooks :
           legacy = [NoLegacy EXCEPT !.pc = "setup", !.playbook_steps = steps]

LegacyStep ==
    \/ \E response \in Texts(ExecChars, 0, MaxExecRx - Len(rx)) :
         \E second_response \in Texts(ExecChars, 0, MaxExecRx - Len(rx) - Len(response)) :
            LegacyPreLoginCheck(response, second_response)
    \/ LegacyIf
    \/ LegacyElifElse
    \/ LegacyEndif
    \/ \E ok \in BOOLEAN : LegacySend(ok)
    \/ LegacyPause
    \/ LegacyWait
    \/ LegacyWaitReturned
    \/ LegacyFinished

NextLegacy ==
    \/ legacy.pc = "setup" /\ \E open_ok, init_ok \in BOOLEAN, data \in Texts(ExecChars, 0, MaxExecRx) :
                                  LegacySetup(open_ok, init_ok, data)
    \/ LegacyStep
    \/ legacy.pc = "waiting" /\ wpc = "polling"
         /\ \E chunk \in Chunks(ExecChars, MaxExecRx - Len(rx)), ok \in BOOLEAN :
               PollData(chunk, ok)
    \/ \E chunk \in Chunks(ExecChars, MaxExecRx - Len(rx)) : LegacyPagerWriteFails(chunk)
    \/ legacy.pc = "waiting" /\ PollEmpty
    \/ legacy.pc = "waiting" /\ PollSerialException
    \/ legacy.pc = "waiting" /\ PollOtherException
    \/ legacy.pc = "waiting" /\ Tick
    \/ legacy.pc = "waiting" /\ WaitTimeout

SpecLegacy == InitLegacy /\ [][NextLegacy]_vars

----------------------------------------------------------------------------
(* Claims about the legacy executor, checked under SpecLegacy *)

LegacyStarted == legacy.pc \in {"running", "waiting", "returned"}

\* what a wait for the sentinel PROMPT is resolved to when the detected prompt is detected
prompt_for(detected) == actual_expected_text(PROMPT, detected, prompt_symbol)

\* C31: within one session the prompt that resolves the sentinel PROMPT is assigned once,
\* before the first playbook step: every PROMPT wait of the run is resolved to the string
\* the run started with, and no wait step changes it.
C31_PromptAssignedOnce ==
    LegacyStarted => prompt_for(detected_prompt) = prompt_for(legacy.prompt_at_start)

\* the first wait for PROMPT was resolved to the fallback symbol, and the prompt detected
\* from what it captured is what the next one will be resolved to
PromptReassignedByWait ==
    /\ legacy.pc = "running" /\ legacy.step_idx = 1
    /\ legacy.playbook_steps = <<Step("wait", PROMPT), Step("wait", PROMPT)>>
    /\ legacy.prompt_at_start = None
    /\ w.actual = <<">">> /\ ret.found
    /\ detected_prompt = <<"a", ">">>
    /\ prompt_for(detected_prompt) = <<"a", ">">>

\* the conditional step of playbook_executor.py for a step of the legacy step list
as_command(step) ==
    CASE step.step_type \in legacy_if_types -> If(<<step.step_type>>, step.value)
      [] step.step_type \in legacy_branch_types \ {"else"} -> Elif(<<step.step_type>>, step.value)
      [] step.step_type = "else" -> Else
      [] step.step_type = "endif" -> Endif
      [] OTHER -> Send(step.value)

\* the condition stack of the ConditionalProcessor after the first n steps
RECURSIVE stack_after(_, _, _)
stack_after(steps, n, output) ==
    IF n = 0 THEN <<>>
    ELSE handle_conditional_command(stack_after(steps, n - 1, output), as_command(steps[n]),
                                    output)

\* the 0-based indices of the send steps the ConditionalProcessor lets execute
RECURSIVE processor_sent(_, _, _)
processor_sent(steps, n, output) ==
    IF n = 0 THEN <<>>
    ELSE IF /\ steps[n].step_type = "send"
            /\ should_execute_command(stack_after(steps, n - 1, output))
         THEN Append(processor_sent(steps, n - 1, output), n - 1)
         ELSE processor_sent(steps, n - 1, output)

\* a wait step followed by one block IF / ELIF* / ELSE? / ENDIF of send steps
one_block_after_wait(steps) ==
    /\ Len(steps) >= 3
    /\ steps[1].step_type = "wait"
    /\ steps[2].step_type \in legacy_if_types
    /\ steps[Len(steps)].step_type = "endif"
    /\ \A i \in 3..(Len(steps) - 1) :
          /\ steps[i].step_type \in legacy_branch_types \cup {"send"}
          /\ steps[i].step_type = "else" =>
                \A j \in (i + 1)..(Len(steps) - 1) : steps[j].step_type = "send"

LegacyBlockRan ==
    /\ legacy.pc = "returned" /\ legacy.result = "true"
    /\ one_block_after_wait(legacy.playbook_steps)
    /\ last_command_output # <<>>

\* C32: on a well-formed IF / ELIF* / ELSE / ENDIF block the legacy executor executes
\* the steps of the branch the ConditionalProcessor selects: the IF branch when its
\* condition holds, else the first ELIF whose condition holds, else the ELSE branch.
C32_LegacySelectsProcessorBranch ==
    LegacyBlockRan =>
        legacy.sent = processor_sent(legacy.playbook_steps, Len(legacy.playbook_steps),
                                     last_command_output)

\* the condition of the IF fails, the processor runs the ELSE branch, the legacy loop none
LegacySkippedElseBranch ==
    /\ LegacyBlockRan
    /\ legacy.playbook_steps =
          <<Step("wait", <<"a">>), Step("if_not_contains", <<"a">>), Step("send", <<"a">>),
            Step("else", <<>>), Step("send", <<"a">>), Step("endif", <<>>)>>
    /\ last_command_output = <<"a">>
    /\ legacy.sent = <<>>
    /\ written = initialization_sequence \o <<<<"\n">>, <<"?", "\n">>>>
    /\ processor_sent(legacy.playbook_steps, 6, last_command_output) = <<4>>

====
